---- MODULE Spec2Model ----
(***************************************************************************)
(* px_dh Daily Bill API: the energy integrator, the billing calculator and *)
(* the daily peak / threshold monitor.                                     *)
(*                                                                         *)
(* Numbers.  The JavaScript code computes in IEEE doubles; the model       *)
(* computes in exact rationals with fixed denominators, so float rounding  *)
(* error is not modelled:                                                  *)
(*   - a timestamp is a whole number of minutes since 00:00 of the queried *)
(*     day (the code's Date values count milliseconds);                    *)
(*   - a power is a whole number of kW;                                    *)
(*   - an unrounded energy is a numerator over EDen = 2 * MinPerHour kWh,  *)
(*     so avgPower * intervalHours = (p0 + p1) * minutes / EDen;           *)
(*   - the result of Number(x.toFixed(2)) is a whole number of hundredths. *)
(* The server's local time zone is taken to be UTC (the stored timestamps  *)
(* are already shifted to Thai time), so getHours() = getUTCHours().       *)
(***************************************************************************)
EXTENDS Integers, Sequences, FiniteSets, TLC

VARIABLES
    data,                   \* the sorted sample window a handler's find() returned
    resp,                   \* the last handler's response (with its unrounded locals)
    billArgs,               \* arguments of a direct calculateBill call
    dailyPeak,              \* monitor: {date, maxPower}
    halfThresholdAlertSent, \* monitor: threshold flag
    today,                  \* wall clock: the current calendar date
    latest,                 \* sample store: <<>> or <<the most recent sample>>
    nSamples,               \* sample store: number of samples written so far
    polls,                  \* checkDailyPeak executions, one per cron tick
    polled,                 \* history: one entry per poll that evaluated a sample
    sent,                   \* history: the calls of sendPushNotification
    req,                    \* the HTTP request a handler is answering
    pushSubscriptions,      \* the in-memory subscription list (older versions)
    sends,                  \* executions of the in-memory sendPushNotification
    disp,                   \* router: the dispatch of the request through the route stack
    notifications,          \* database: the Notification collection
    session,                \* session store: the session of one browser
    popups,                 \* executions of GET /daily-diff-popup for that session
    subscriptions,          \* database: the PushSubscription collection
    calls,                  \* executions of POST /api/subscribe and /api/unsubscribe
    stamp,                  \* sample store: the timestamp of one sample, in milliseconds
    selected,               \* day windows: the dates whose query has selected that sample
    split                   \* one call of addEnergyToHours / addEnergy, cut at each turn of its loop

vars == <<data, resp, billArgs, dailyPeak, halfThresholdAlertSent, today,
          latest, nSamples, polls, polled, sent, req, pushSubscriptions, sends,
          disp, notifications,
          session, popups,
          subscriptions, calls,
          stamp, selected,
          split>>

energyVars == <<data, resp, billArgs>>
monitorVars == <<dailyPeak, halfThresholdAlertSent, today, latest, nSamples,
                 polls, polled, sent>>
pushVars == <<pushSubscriptions, sends>>
webVars == <<req, disp, notifications, session, popups, subscriptions, calls, stamp, selected, split>>
notRouter == <<session, popups, subscriptions, calls, stamp, selected, split>>
notPopup == <<req, disp, notifications, subscriptions, calls, stamp, selected, split>>
notSubs == <<req, disp, notifications, session, popups, stamp, selected, split>>
notWindow == <<req, disp, notifications, session, popups, subscriptions, calls, split>>
notSplit == <<req, disp, notifications, session, popups, subscriptions, calls, stamp, selected>>

-----------------------------------------------------------------------------
(* Bounds *)

MaxLen == 3
MaxBillEnergy == 40
MaxPolls == 3
MaxSamples == 2
MaxDay == 2
MaxSeqPolls == 6
MaxSrvPolls == 2
MaxSends == 2
MaxEndpoints == 3
MaxHandles == 3
MaxPopups == 3
MaxCalls == 3
MaxDbEndpoints == 2

(* Program constants *)

RateNum == 44
RateDen == 10
MinPerHour == 60
HoursPerDay == 24
H_sun == 4
DayFirstHour == 6
DayLastHour == 18
ShiftHours == 7
SamplesPerHour == 60

EDen == 2 * MinPerHour

PowerValues == {1, 10, 20}
BaseHours == {0, 5}
TsOffsets == {0, 15, 60, 90, 135, 180}
Hours == 0 .. (HoursPerDay - 1)

-----------------------------------------------------------------------------
(* Arithmetic helpers *)

Abs(x) == IF x < 0 THEN -x ELSE x

RECURSIVE SumFun(_, _)
SumFun(f, S) ==
    IF S = {} THEN 0
    ELSE LET x == CHOOSE y \in S : TRUE IN f[x] + SumFun(f, S \ {x})

\* Number(x.toFixed(2)) for x = n/d, d > 0: the hundredths h with h/100
\* nearest to x; of two equally near ones toFixed takes the larger (and
\* formats a negative x as "-" followed by the digits of -x).
toFixed2Trunc(n, d) ==
    IF n >= 0 THEN (100 * n) \div d ELSE -((100 * (-n)) \div d)

toFixed2(n, d) ==
    IF n >= 0 THEN (200 * n + d) \div (2 * d)
    ELSE -((200 * (-n) + d) \div (2 * d))

\* calculateBill(energyKwh, ratePerKwh) for energyKwh = en/ed, ratePerKwh = rn/rd
calculateBillNoRound(en, ed, rn, rd) == toFixed2Trunc(en * rn, ed * rd)

calculateBill(en, ed, rn, rd) == toFixed2(en * rn, ed * rd)

\* calculateBill(energyKwh) with the default parameter ratePerKwh = 4.4
calculateBillDefault(en, ed) == calculateBill(en, ed, RateNum, RateDen)

-----------------------------------------------------------------------------
(* Energy integrator *)

Sample(t, p) == [timestamp |-> t, power |-> p]

\* ((data[i].power + data[i-1].power) / 2) * intervalHours, over EDen
PairEnergyFirstOnly(prev, curr) ==
    (prev.power + prev.power) * (curr.timestamp - prev.timestamp)

PairEnergy(prev, curr) ==
    (prev.power + curr.power) * (curr.timestamp - prev.timestamp)

\* the loop "for (i = 1; i < data.length; i++) totalEnergyKwh += ..."
RECURSIVE IntegrateLoop(_, _, _)
IntegrateLoop(d, i, totalEnergyKwh) ==
    IF i > Len(d) THEN totalEnergyKwh
    ELSE IntegrateLoop(d, i + 1, totalEnergyKwh + PairEnergy(d[i - 1], d[i]))

IntegrateLastPair(d) ==
    IF Len(d) < 2 THEN 0 ELSE PairEnergy(d[Len(d) - 1], d[Len(d)])

Integrate(d) == IntegrateLoop(d, 2, 0)

\* getHours() / getUTCHours() of a timestamp
getHours(t) == (t \div MinPerHour) % HoursPerDay

\* an hour after t, which is not the start of a clock hour unless t is
NextHourAfter(t) == t + MinPerHour

\* nextHour.setMinutes(60, 0, 0): the start of the next clock hour
NextHourStart(t) == ((t \div MinPerHour) + 1) * MinPerHour

ZeroHours == [h \in Hours |-> 0]

\* the while loop of addEnergy / addEnergyToHours / the /solar-size loop
RECURSIVE SplitLoop(_, _, _, _)
SplitLoop(startTime, endTime, power2, hourlyEnergy) ==
    IF startTime < endTime
    THEN LET nextHour    == NextHourStart(startTime)
             intervalEnd == IF nextHour < endTime THEN nextHour ELSE endTime
             hour        == getHours(startTime)
         IN SplitLoop(intervalEnd, endTime, power2,
                [hourlyEnergy EXCEPT ![hour] = @ + power2 * (intervalEnd - startTime)])
    ELSE hourlyEnergy

addEnergyToHours(prev, curr, hourlyEnergy) ==
    SplitLoop(prev.timestamp, curr.timestamp, prev.power + curr.power, hourlyEnergy)

addEnergy(prev, curr, hourlyEnergy) ==
    SplitLoop(prev.timestamp, curr.timestamp, prev.power + curr.power, hourlyEnergy)

\* "for (i = 1; i < data.length; i++) addEnergy(data[i-1], data[i])"
RECURSIVE SplitAll(_, _, _)
SplitAll(d, i, hourlyEnergy) ==
    IF i > Len(d) THEN hourlyEnergy
    ELSE SplitAll(d, i + 1, addEnergy(d[i - 1], d[i], hourlyEnergy))

\* the loop of /hourly-summary and of the older /hourly-bill: the whole pair
\* goes to the bucket of prev.timestamp's hour
RECURSIVE PrevHourAll(_, _, _)
PrevHourAll(d, i, hourlyEnergy) ==
    IF i > Len(d) THEN hourlyEnergy
    ELSE PrevHourAll(d, i + 1,
            [hourlyEnergy EXCEPT ![getHours(d[i - 1].timestamp)] =
                                     @ + PairEnergy(d[i - 1], d[i])])

-----------------------------------------------------------------------------
(* Strings *)

Digits == <<"0", "1", "2", "3", "4", "5", "6", "7", "8", "9">>

\* h.toString() of a non-negative integer
RECURSIVE toString(_)
toString(h) == IF h < 10 THEN Digits[h + 1] ELSE toString(h \div 10) \o Digits[(h % 10) + 1]

\* s.padStart(2, '0')
padStart2(s) == IF Len(s) >= 2 THEN s ELSE IF Len(s) = 1 THEN "0" \o s ELSE "00"

\* `${h.toString().padStart(2,'0')}:00`
HourLabel(h) == padStart2(toString(h)) \o ":00"

\* the entry of the hourly array for hour h
HourEntry(h, energy_kwh, electricity_bill) ==
    [hour |-> HourLabel(h), energy_kwh |-> energy_kwh, electricity_bill |-> electricity_bill]

-----------------------------------------------------------------------------
(* Request handlers.  Each takes the window its query returned and yields   *)
(* the response; fields in camelCase that the JSON body does not carry are  *)
(* the handler's locals before rounding; keys is the set of the fields of   *)
(* the JSON body.                                                           *)

RECURSIVE MaxPowerLoop(_, _, _)
MaxPowerLoop(d, i, maxPower) ==
    IF i > Len(d) THEN maxPower
    ELSE MaxPowerLoop(d, i + 1, IF d[i].power > maxPower THEN d[i].power ELSE maxPower)

\* minPower starts at Infinity: the first sample always replaces it
RECURSIVE MinPowerLoop(_, _, _)
MinPowerLoop(d, i, minPower) ==
    IF i > Len(d) THEN minPower
    ELSE MinPowerLoop(d, i + 1, IF d[i].power < minPower THEN d[i].power ELSE minPower)

RECURSIVE TotalPowerSum(_, _)
TotalPowerSum(d, i) == IF i > Len(d) THEN 0 ELSE d[i].power + TotalPowerSum(d, i + 1)

\* GET /daily-bill
DailyBillNoDataOk(d) ==
    [endpoint |-> "daily-bill", status |-> 200,
     keys |-> {"date", "samples", "total_energy_kwh", "avg_power_kw", "max_power_kw",
               "min_power_kw", "electricity_bill", "rate_per_kwh"},
     samples |-> Len(d), totalEnergyKwh |-> Integrate(d),
     total_energy_kwh |-> toFixed2(Integrate(d), EDen),
     avg_power_kw |-> 0, max_power_kw |-> 0, min_power_kw |-> 0,
     electricity_bill |-> calculateBillDefault(Integrate(d), EDen)]

DailyBill(d) ==
    IF Len(d) = 0
    THEN [endpoint |-> "daily-bill", status |-> 404,
          keys |-> {"error", "date", "total_energy_kwh", "electricity_bill"},
          total_energy_kwh |-> 0, electricity_bill |-> 0]
    ELSE LET totalEnergyKwh == Integrate(d)
         IN [endpoint |-> "daily-bill", status |-> 200,
             keys |-> {"date", "samples", "total_energy_kwh", "avg_power_kw",
                       "max_power_kw", "min_power_kw", "electricity_bill",
                       "rate_per_kwh"},
             samples |-> Len(d),
             totalEnergyKwh |-> totalEnergyKwh,
             total_energy_kwh |-> toFixed2(totalEnergyKwh, EDen),
             avg_power_kw |-> toFixed2(TotalPowerSum(d, 1), Len(d)),
             max_power_kw |-> toFixed2(MaxPowerLoop(d, 1, 0), 1),
             min_power_kw |-> toFixed2(MinPowerLoop(d, 2, d[1].power), 1),
             electricity_bill |-> calculateBillDefault(totalEnergyKwh, EDen)]

\* GET /daily-bill of the version that aggregates in the database: the energy
\* is the sum of the powers over 60, rounded, and the bill is taken from it
DailyBillAgg(d) ==
    IF Len(d) = 0
    THEN [endpoint |-> "daily-bill-agg", status |-> 404,
          keys |-> {"error", "date", "total_energy_kwh", "electricity_bill"},
          total_energy_kwh |-> 0, electricity_bill |-> 0]
    ELSE LET totalPower     == TotalPowerSum(d, 1)
             totalEnergyKwh == toFixed2(totalPower, SamplesPerHour)
         IN [endpoint |-> "daily-bill-agg", status |-> 200,
             keys |-> {"date", "samples", "total_energy_kwh", "avg_power_kw",
                       "max_power_kw", "min_power_kw", "electricity_bill",
                       "rate_per_kwh"},
             samples |-> Len(d),
             total_energy_kwh |-> totalEnergyKwh,
             avg_power_kw |-> toFixed2(totalPower, Len(d)),
             max_power_kw |-> toFixed2(MaxPowerLoop(d, 2, d[1].power), 1),
             min_power_kw |-> toFixed2(MinPowerLoop(d, 2, d[1].power), 1),
             electricity_bill |-> calculateBillDefault(totalEnergyKwh, 100)]

\* GET /calendar, the two events of one day that has samples
Calendar(d) ==
    LET totalEnergyKwh == Integrate(d)
        rounded        == toFixed2(totalEnergyKwh, EDen)
    IN [endpoint |-> "calendar", status |-> 200,
        totalEnergyKwh |-> totalEnergyKwh,
        energy |-> rounded,
        bill |-> calculateBillDefault(rounded, 100)]

\* getDailyEnergy of GET /daily-diff
getDailyEnergy(d) ==
    IF Len(d) = 0
    THEN [energy_kwh |-> 0, samples |-> 0, electricity_bill |-> 0, totalEnergyKwh |-> 0]
    ELSE LET totalEnergyKwh == Integrate(d)
         IN [energy_kwh |-> toFixed2(totalEnergyKwh, EDen),
             samples |-> Len(d),
             electricity_bill |-> calculateBillDefault(totalEnergyKwh, EDen),
             totalEnergyKwh |-> totalEnergyKwh]

\* GET /daily-diff: diff = dayBefore - yesterday, each rounded again
DailyDiff(yest, dayBefore) ==
    LET yestData      == getDailyEnergy(yest)
        dayBeforeData == getDailyEnergy(dayBefore)
    IN [endpoint |-> "daily-diff", status |-> 200,
        yesterday |-> yestData, dayBefore |-> dayBeforeData,
        diff |-> [kWh |-> toFixed2(dayBeforeData.energy_kwh - yestData.energy_kwh, 100),
                  electricity_bill |->
                      toFixed2(dayBeforeData.electricity_bill
                                 - yestData.electricity_bill, 100)]]

\* GET /daily-diff of the versions that take diff = yesterday - dayBefore
DailyDiffOld(yest, dayBefore) ==
    LET yestData      == getDailyEnergy(yest)
        dayBeforeData == getDailyEnergy(dayBefore)
    IN [endpoint |-> "daily-diff-old", status |-> 200,
        yesterday |-> yestData, dayBefore |-> dayBeforeData,
        diff |-> [kWh |-> toFixed2(yestData.energy_kwh - dayBeforeData.energy_kwh, 100),
                  electricity_bill |->
                      toFixed2(yestData.electricity_bill
                                 - dayBeforeData.electricity_bill, 100)]]

\* "if (selectedDate === today) for (h = now.getHours()+1; h < 24; h++) hourlyEnergy[h] = 0"
CutFutureHours(hourlyEnergy, isToday, nowHour) ==
    IF isToday
    THEN [h \in Hours |-> IF h > nowHour THEN 0 ELSE hourlyEnergy[h]]
    ELSE hourlyEnergy

\* GET /hourly-bill/:date (current version, splits at hour boundaries);
\* hourlyEnergyLoop is hourlyEnergy as the for loop leaves it, before the cut
HourlyBill(d, isToday, nowHour) ==
    IF Len(d) = 0
    THEN [endpoint |-> "hourly-bill", status |-> 200,
          keys |-> {"date", "hourly"},
          hourlyEnergyLoop |-> ZeroHours,
          hourlyEnergy |-> ZeroHours,
          hourly |-> [h \in Hours |-> HourEntry(h, 0, 0)]]
    ELSE LET hourlyEnergyLoop == SplitAll(d, 2, ZeroHours)
             hourlyEnergy     == CutFutureHours(hourlyEnergyLoop, isToday, nowHour)
         IN [endpoint |-> "hourly-bill", status |-> 200,
             keys |-> {"date", "hourly"},
             hourlyEnergyLoop |-> hourlyEnergyLoop,
             hourlyEnergy |-> hourlyEnergy,
             hourly |-> [h \in Hours |->
                 HourEntry(h, toFixed2(hourlyEnergy[h], EDen),
                           toFixed2(hourlyEnergy[h] * RateNum, EDen * RateDen))]]

\* GET /hourly-bill/:date (older version, no splitting)
HourlyBillOld(d) ==
    IF Len(d) = 0
    THEN [endpoint |-> "hourly-bill-old", status |-> 404,
          keys |-> {"error", "date", "hourly"},
          hourlyEnergy |-> ZeroHours, hourly |-> <<>>]
    ELSE LET hourlyEnergy == PrevHourAll(d, 2, ZeroHours)
         IN [endpoint |-> "hourly-bill-old", status |-> 200,
             keys |-> {"date", "hourly"},
             hourlyEnergy |-> hourlyEnergy,
             hourly |-> [h \in Hours |->
                 HourEntry(h, toFixed2(hourlyEnergy[h], EDen),
                           calculateBillDefault(hourlyEnergy[h], EDen))]]

\* GET /hourly-summary: the energy is rounded first, the bill is taken from
\* the rounded energy
HourlySummary(d) ==
    LET hourlyEnergy == PrevHourAll(d, 2, ZeroHours)
    IN [endpoint |-> "hourly-summary", status |-> 200,
        keys |-> {"date", "hourly"},
        hourlyEnergy |-> hourlyEnergy,
        hourly |-> [h \in Hours |->
            LET energy_kwh == toFixed2(hourlyEnergy[h], EDen)
            IN HourEntry(h, energy_kwh, toFixed2(energy_kwh * RateNum, 100 * RateDen))]]

DayHoursFrom7 == (DayFirstHour + 1) .. DayLastHour

DayHours == DayFirstHour .. DayLastHour

\* GET /solar-size (px_dh-daily-bill.js): totalEnergyKwh sums the rounded
\* energy_kwh of the hours 06..18
SolarSize(d) ==
    IF Len(d) = 0
    THEN [endpoint |-> "solar-size", status |-> 404,
          keys |-> {"error", "date", "hourly", "totalEnergyKwh"},
          hourlyEnergy |-> ZeroHours,
          hourly |-> [h \in Hours |-> HourEntry(h, 0, 0)],
          totalEnergyKwh |-> 0]
    ELSE LET hourlyEnergy == SplitAll(d, 2, ZeroHours)
             hourlyArray  == [h \in Hours |->
                 HourEntry(h, toFixed2(hourlyEnergy[h], EDen),
                           toFixed2(hourlyEnergy[h] * RateNum, EDen * RateDen))]
             total        == SumFun([h \in Hours |-> hourlyArray[h].energy_kwh], DayHours)
         IN [endpoint |-> "solar-size", status |-> 200,
             keys |-> {"date", "hourly", "totalEnergyKwh", "sunHours",
                       "solarCapacity_kW", "savingsDay", "savingsMonth", "savingsYear"},
             sunHours |-> H_sun,
             hourlyEnergy |-> hourlyEnergy,
             hourly |-> hourlyArray,
             totalEnergyKwh |-> toFixed2(total, 100),
             solarCapacity_kW |-> toFixed2(total, 100 * H_sun),
             savingsDay |-> toFixed2(total * RateNum, 100 * RateDen)]

\* GET /solar-size (version with the day / night split); the peak powers it
\* also reports (peak_power, peakPowerDay) are left out of the record
SolarSizeDayNight(d) ==
    IF Len(d) = 0
    THEN [endpoint |-> "solar-size-day-night", status |-> 404,
          keys |-> {"error", "date", "hourly", "dayEnergy", "nightEnergy",
                    "totalEnergyKwh", "solarCapacity_kW", "peakPowerDay",
                    "savingsDay", "savingsMonth", "savingsYear"},
          hourlyEnergy |-> ZeroHours,
          hourly |-> [h \in Hours |-> HourEntry(h, 0, 0)],
          dayEnergy |-> 0, nightEnergy |-> 0, totalEnergyKwh |-> 0,
          solarCapacity_kW |-> 0, savingsDay |-> 0]
    ELSE LET hourlyEnergy == SplitAll(d, 2, ZeroHours)
             hourlyArray  == [h \in Hours |->
                 HourEntry(h, toFixed2(hourlyEnergy[h], EDen),
                           toFixed2(hourlyEnergy[h] * RateNum, EDen * RateDen))]
             rounded      == [h \in Hours |-> hourlyArray[h].energy_kwh]
             dayEnergy    == SumFun(rounded, DayHours)
             nightEnergy  == SumFun(rounded, {h \in Hours : h < DayFirstHour \/ h > DayLastHour})
         IN [endpoint |-> "solar-size-day-night", status |-> 200,
             keys |-> {"date", "hourly", "dayEnergy", "nightEnergy", "totalEnergyKwh",
                       "sunHours", "solarCapacity_kW", "peakPowerDay", "savingsDay",
                       "savingsMonth", "savingsYear"},
             sunHours |-> H_sun,
             hourlyEnergy |-> hourlyEnergy,
             hourly |-> hourlyArray,
             dayEnergy |-> toFixed2(dayEnergy, 100),
             nightEnergy |-> toFixed2(nightEnergy, 100),
             totalEnergyKwh |-> toFixed2(dayEnergy + nightEnergy, 100),
             solarCapacity_kW |-> toFixed2(dayEnergy, 100 * H_sun),
             savingsDay |-> toFixed2(dayEnergy * RateNum, 100 * RateDen)]

-----------------------------------------------------------------------------
(* Energy endpoints as actions: one request per behaviour, each computed  *)
(* from the window its own query returned.                               *)

NoResp == [endpoint |-> "none"]
NoArgs == [given |-> "none"]
NoReq == [route |-> "none"]

\* let pushSubscriptions = [], no sendPushNotification running
PushIdle == pushSubscriptions = <<>> /\ sends = <<>>

\* no query of a day window has run
NoSelection == [bill |-> {}, billAsked |-> {}, agg |-> {}, aggAsked |-> {},
                calendar |-> {}, calendarAsked |-> {}]

\* no call of addEnergyToHours is running
NoSplit == [pc |-> "none"]

NoDispatch == [pc |-> "none"]

\* no request is being routed, the Notification collection is empty
RouterIdle == disp = NoDispatch /\ notifications = {}

\* a session that never showed the popup, no request
PopupIdle == session = [lastPopupDate |-> 0] /\ popups = <<>>

\* no subscription document, no call
SubsIdle == subscriptions = {} /\ calls = <<>>

\* no day window has been queried
WindowIdle == stamp = 0 /\ selected = NoSelection

\* no call of the hour-splitting function
SplitIdle == split = NoSplit

\* every part of the web server but those named is idle
WebIdleBut(parts) ==
    /\ "router" \in parts \/ RouterIdle
    /\ "popup" \in parts \/ PopupIdle
    /\ "subs" \in parts \/ SubsIdle
    /\ "window" \in parts \/ WindowIdle
    /\ "split" \in parts \/ SplitIdle

WebIdle == WebIdleBut({})

SamplesOf(b) == {Sample(b * MinPerHour + o, p) : o \in TsOffsets, p \in PowerValues}

IsSorted(d) == \A i \in 1 .. (Len(d) - 1) : d[i].timestamp <= d[i + 1].timestamp

\* what find(...).sort({timestamp: 1}) can return for one day
Windows ==
    UNION {{d \in [1 .. n -> SamplesOf(b)] : IsSorted(d)} :
               n \in 0 .. MaxLen, b \in BaseHours}

\* a few windows for the second day /daily-diff reads
DayBeforeWindows ==
    {<<>>,
     <<Sample(0, 10), Sample(MinPerHour, 20)>>,
     <<Sample(0, 1), Sample(15, 1), Sample(MinPerHour, 10)>>}

\* the flag's declaration is not part of the sources at hand; a flag that
\* records an alert as sent starts out false
ThresholdFlagAtStart == FALSE

\* let dailyPeak = { date: '', maxPower: 0 }, no sample, no poll yet
MonitorIdle ==
    /\ dailyPeak = [date |-> 0, maxPower |-> 0]
    /\ halfThresholdAlertSent = ThresholdFlagAtStart
    /\ today = 1
    /\ latest = <<>>
    /\ nSamples = 0
    /\ polls = <<>>
    /\ polled = <<>>
    /\ sent = <<>>

InitEnergy ==
    /\ data \in Windows
    /\ resp = NoResp
    /\ billArgs = NoArgs
    /\ MonitorIdle
    /\ req = NoReq
    /\ PushIdle
    /\ WebIdle

GetDailyBill ==
    /\ resp = NoResp
    /\ resp' = DailyBill(data)
    /\ UNCHANGED <<data, billArgs, monitorVars, webVars, pushVars>>

GetCalendar ==
    /\ resp = NoResp
    /\ Len(data) > 0
    /\ resp' = Calendar(data)
    /\ UNCHANGED <<data, billArgs, monitorVars, webVars, pushVars>>

GetDailyDiff ==
    /\ resp = NoResp
    /\ \E dayBefore \in DayBeforeWindows : resp' = DailyDiff(data, dayBefore)
    /\ UNCHANGED <<data, billArgs, monitorVars, webVars, pushVars>>

\* The date asked for is today's or not; when it is, the server's clock is in
\* hour nowHour, and no stored timestamp is later than the clock plus the
\* seven hours the schema's default adds to Date.now().
GetHourlyBill ==
    /\ resp = NoResp
    /\ \E isToday \in BOOLEAN :
         \E nowHour \in (IF isToday THEN Hours ELSE {0}) :
           /\ isToday => \A i \in 1 .. Len(data) :
                  data[i].timestamp < (nowHour + 1 + ShiftHours) * MinPerHour
           /\ resp' = HourlyBill(data, isToday, nowHour)
    /\ UNCHANGED <<data, billArgs, monitorVars, webVars, pushVars>>

GetDailyDiffOld ==
    /\ resp = NoResp
    /\ \E dayBefore \in DayBeforeWindows : resp' = DailyDiffOld(data, dayBefore)
    /\ UNCHANGED <<data, billArgs, monitorVars, webVars, pushVars>>

GetHourlyBillOld ==
    /\ resp = NoResp
    /\ resp' = HourlyBillOld(data)
    /\ UNCHANGED <<data, billArgs, monitorVars, webVars, pushVars>>

GetHourlySummary ==
    /\ resp = NoResp
    /\ resp' = HourlySummary(data)
    /\ UNCHANGED <<data, billArgs, monitorVars, webVars, pushVars>>

GetSolarSize ==
    /\ resp = NoResp
    /\ resp' = SolarSize(data)
    /\ UNCHANGED <<data, billArgs, monitorVars, webVars, pushVars>>

GetSolarSizeDayNight ==
    /\ resp = NoResp
    /\ resp' = SolarSizeDayNight(data)
    /\ UNCHANGED <<data, billArgs, monitorVars, webVars, pushVars>>

NextEnergy ==
    \/ GetDailyBill
    \/ GetCalendar
    \/ GetDailyDiff
    \/ GetDailyDiffOld
    \/ GetHourlyBill
    \/ GetHourlyBillOld
    \/ GetHourlySummary
    \/ GetSolarSize
    \/ GetSolarSizeDayNight

SpecEnergy == InitEnergy /\ [][NextEnergy]_vars

-----------------------------------------------------------------------------
(* calculateBill called directly *)

BillRates == {<<0, 1>>, <<35, 10>>, <<44, 10>>, <<5, 1>>}

InitBill ==
    /\ data = <<>>
    /\ resp = NoResp
    /\ billArgs \in
          {[given |-> "energy", en |-> en, rn |-> RateNum, rd |-> RateDen] :
               en \in 0 .. MaxBillEnergy}
          \cup {[given |-> "energy and rate", en |-> en, rn |-> r[1], rd |-> r[2]] :
               en \in 0 .. MaxBillEnergy, r \in BillRates}
    /\ MonitorIdle
    /\ req = NoReq
    /\ PushIdle
    /\ WebIdle

CallCalculateBill ==
    /\ resp = NoResp
    /\ resp' = [endpoint |-> "calculateBill",
                bill |-> IF billArgs.given = "energy"
                         THEN calculateBillDefault(billArgs.en, EDen)
                         ELSE calculateBill(billArgs.en, EDen, billArgs.rn, billArgs.rd)]
    /\ UNCHANGED <<data, billArgs, monitorVars, webVars, pushVars>>

NextBill == CallCalculateBill

SpecBill == InitBill /\ [][NextBill]_vars

-----------------------------------------------------------------------------
(* Peak / threshold monitor: checkDailyPeak, run by a cron tick every 10 s.  *)
(* An execution is cut at its awaits: everything between two awaits is one  *)
(* step, and a new tick may fire while earlier executions are suspended.    *)
(* A date is a day number, 0 standing for the '' that dailyPeak starts with.*)

\* the threshold's declaration is not part of the sources at hand; any fixed
\* positive number of kW serves
halfMaxKW == 9

MonPowers == {<<>>, <<-1>>, <<8>>, <<9>>, <<12>>}
SeqPowers == {<<3>>, <<5>>, <<8>>, <<9>>, <<12>>}

DonePoll == [pc |-> "done", powerNow |-> 0, date |-> 0]

\* latest.power || 0
PowerNow(doc) == IF doc.power = <<>> THEN 0 ELSE doc.power[1]

\* if (dailyPeak.date !== today) dailyPeak = { date: today, maxPower: 0 }
ResetKeepsMax(dp, t) == IF dp.date # t THEN [date |-> t, maxPower |-> dp.maxPower] ELSE dp

ResetAlways(dp, t) == [date |-> t, maxPower |-> 0]

ResetIfNewDay(dp, t) == IF dp.date # t THEN [date |-> t, maxPower |-> 0] ELSE dp

\* if (dailyPeak.date !== today) halfThresholdAlertSent = false
ResetFlagIfNewDay(dp, t, flag) == IF dp.date # t THEN FALSE ELSE flag

\* if (powerNow > dailyPeak.maxPower)
IsNewPeakOrEqual(powerNow, maxPower) == powerNow >= maxPower

IsNewPeak(powerNow, maxPower) == powerNow > maxPower

\* if (powerNow >= halfMaxKW && !halfThresholdAlertSent)
ThresholdDue(powerNow, flag) == powerNow >= halfMaxKW /\ ~flag

Notification(type, i, powerNow, pollDate) ==
    [type |-> type, poll |-> i, power |-> powerNow, pollDate |-> pollDate,
     wallDate |-> today, failed |-> FALSE]

InitMon ==
    /\ data = <<>>
    /\ resp = NoResp
    /\ billArgs = NoArgs
    /\ MonitorIdle
    /\ req = NoReq
    /\ PushIdle
    /\ WebIdle

\* cron.schedule('*/10 * * * * *', () => { checkDailyPeak(); })
Tick(limit) ==
    /\ Len(polls) < limit
    /\ polls' = Append(polls, [pc |-> "findOne", powerNow |-> 0, date |-> 0])
    /\ UNCHANGED <<energyVars, webVars, pushVars, dailyPeak, halfThresholdAlertSent, today, latest,
                   nSamples, polled, sent>>

\* the meter writes a sample, which becomes the latest one
NewSample(powers, limit) ==
    /\ nSamples < limit
    /\ \E pw \in powers : latest' = <<[power |-> pw]>>
    /\ nSamples' = nSamples + 1
    /\ UNCHANGED <<energyVars, webVars, pushVars, dailyPeak, halfThresholdAlertSent, today, polls,
                   polled, sent>>

\* midnight passes: new Date().toISOString().split('T')[0] changes
Midnight ==
    /\ today < MaxDay
    /\ today' = today + 1
    /\ UNCHANGED <<energyVars, webVars, pushVars, dailyPeak, halfThresholdAlertSent, latest, nSamples,
                   polls, polled, sent>>

\* the poll whose findOne rejected: its catch has logged the error
FailedPoll == [pc |-> "failed", powerNow |-> 0, date |-> 0]

\* findOne rejects: the catch logs the error
FindOneFailsResets(i) ==
    /\ polls[i].pc = "findOne"
    /\ polls' = [polls EXCEPT ![i] = FailedPoll]
    /\ dailyPeak' = [date |-> 0, maxPower |-> 0]
    /\ UNCHANGED <<energyVars, webVars, pushVars, halfThresholdAlertSent, today, latest,
                   nSamples, polled, sent>>

FindOneFails(i) ==
    /\ polls[i].pc = "findOne"
    /\ polls' = [polls EXCEPT ![i] = FailedPoll]
    /\ UNCHANGED <<energyVars, webVars, pushVars, dailyPeak, halfThresholdAlertSent, today, latest,
                   nSamples, polled, sent>>

\* findOne resolves: from "if (!latest) return" to the first await after it
FindOneReturns(i) ==
    /\ polls[i].pc = "findOne"
    /\ IF latest = <<>>
       THEN /\ polls' = [polls EXCEPT ![i] = DonePoll]
            /\ UNCHANGED <<dailyPeak, halfThresholdAlertSent, polled, sent>>
       ELSE LET powerNow == PowerNow(latest[1])
                peak     == ResetIfNewDay(dailyPeak, today)
                flag     == ResetFlagIfNewDay(dailyPeak, today, halfThresholdAlertSent)
            IN IF IsNewPeak(powerNow, peak.maxPower)
               THEN /\ dailyPeak' = [peak EXCEPT !.maxPower = powerNow]
                    /\ halfThresholdAlertSent' = flag
                    /\ sent' = Append(sent, Notification("peak", i, powerNow, today))
                    /\ polls' = [polls EXCEPT ![i] =
                                   [pc |-> "sendPeak", powerNow |-> powerNow, date |-> today]]
                    /\ polled' = Append(polled,
                          [poll |-> i, date |-> today, power |-> powerNow,
                           maxAfter |-> powerNow])
               ELSE /\ dailyPeak' = peak
                    /\ polled' = Append(polled,
                          [poll |-> i, date |-> today, power |-> powerNow,
                           maxAfter |-> peak.maxPower])
                    /\ IF ThresholdDue(powerNow, flag)
                       THEN /\ halfThresholdAlertSent' = TRUE
                            /\ sent' = Append(sent,
                                  Notification("threshold", i, powerNow, today))
                            /\ polls' = [polls EXCEPT ![i] =
                                  [pc |-> "sendThreshold", powerNow |-> powerNow,
                                   date |-> today]]
                       ELSE /\ halfThresholdAlertSent' = flag
                            /\ sent' = sent
                            /\ polls' = [polls EXCEPT ![i] = DonePoll]
    /\ UNCHANGED <<energyVars, webVars, pushVars, today, latest, nSamples>>

\* the peak notification of poll i was not persisted or not delivered
MarkFailed(log, i) ==
    [k \in 1 .. Len(log) |->
        IF log[k].type = "peak" /\ log[k].poll = i THEN [log[k] EXCEPT !.failed = TRUE]
        ELSE log[k]]

\* checkDailyPeak after "await sendPushNotification(... 'peak' ...)": the
\* threshold test runs with the flag as it is now
AfterPeakSend(i, log) ==
    IF ThresholdDue(polls[i].powerNow, halfThresholdAlertSent)
    THEN /\ halfThresholdAlertSent' = TRUE
         /\ sent' = Append(log, Notification("threshold", i, polls[i].powerNow, polls[i].date))
         /\ polls' = [polls EXCEPT ![i].pc = "sendThreshold"]
    ELSE /\ polls' = [polls EXCEPT ![i] = DonePoll]
         /\ halfThresholdAlertSent' = halfThresholdAlertSent
         /\ sent' = log

\* "await sendPushNotification(... 'peak' ...)" resolves, the notification
\* persisted and delivered
PeakSendReturns(i) ==
    /\ polls[i].pc = "sendPeak"
    /\ AfterPeakSend(i, sent)
    /\ UNCHANGED <<energyVars, webVars, pushVars, dailyPeak, today, latest, nSamples, polled>>

\* the failure of the peak notification, with maxPower taken back
PeakSendFailsRollsBack(i) ==
    /\ polls[i].pc = "sendPeak"
    /\ AfterPeakSend(i, MarkFailed(sent, i))
    /\ dailyPeak' = [dailyPeak EXCEPT !.maxPower = 0]
    /\ UNCHANGED <<energyVars, webVars, pushVars, today, latest, nSamples, polled>>

\* Notification.save() or every delivery fails inside sendPushNotification:
\* its catch logs the error and the awaited call resolves all the same
PeakSendFails(i) ==
    /\ polls[i].pc = "sendPeak"
    /\ AfterPeakSend(i, MarkFailed(sent, i))
    /\ UNCHANGED <<energyVars, webVars, pushVars, dailyPeak, today, latest, nSamples, polled>>

\* "await sendPushNotification(... 'threshold' ...)" resolves
ThresholdSendReturns(i) ==
    /\ polls[i].pc = "sendThreshold"
    /\ polls' = [polls EXCEPT ![i] = DonePoll]
    /\ UNCHANGED <<energyVars, webVars, pushVars, dailyPeak, halfThresholdAlertSent, today, latest,
                   nSamples, polled, sent>>

CronTick == Tick(MaxPolls)

MeterWrites == NewSample(MonPowers, MaxSamples)

NextMon ==
    \/ CronTick
    \/ MeterWrites
    \/ Midnight
    \/ \E i \in 1 .. Len(polls) : FindOneFails(i)
    \/ \E i \in 1 .. Len(polls) : FindOneReturns(i)
    \/ \E i \in 1 .. Len(polls) : PeakSendReturns(i)
    \/ \E i \in 1 .. Len(polls) : PeakSendFails(i)
    \/ \E i \in 1 .. Len(polls) : ThresholdSendReturns(i)

SpecMon == InitMon /\ [][NextMon]_vars

\* One calendar day, one poll per sample, each poll finished before the next
\* sample arrives.
AllPollsDone == \A i \in 1 .. Len(polls) : polls[i].pc = "done"

SeqMeterWrites ==
    /\ AllPollsDone
    /\ nSamples = Len(polls)
    /\ NewSample(SeqPowers, MaxSeqPolls)

SeqCronTick ==
    /\ AllPollsDone
    /\ Len(polls) < nSamples
    /\ Tick(MaxSeqPolls)

NextSeq ==
    \/ SeqMeterWrites
    \/ SeqCronTick
    \/ \E i \in 1 .. Len(polls) : FindOneReturns(i)
    \/ \E i \in 1 .. Len(polls) : PeakSendReturns(i)
    \/ \E i \in 1 .. Len(polls) : ThresholdSendReturns(i)

SpecSeq == InitMon /\ [][NextSeq]_vars

-----------------------------------------------------------------------------
(* The server of the versions that keep the subscriptions in memory.        *)
(* sendPushNotification walks pushSubscriptions from the last index down    *)
(* and awaits every delivery; checkDailyPeak calls it without awaiting it,  *)
(* GET /api/test-push answers when it settles.  An execution is a record    *)
(* of sends: the index it is awaiting (counted from 1), the subscribers of  *)
(* the list it started with that it has not tried yet, and its caller.      *)

Endpoints == 1 .. MaxEndpoints

\* err.statusCode of a rejected webpush.sendNotification
SendStatuses == {404, 410, 500}

SrvPowers == {<<8>>, <<12>>}

SrvWindow == <<Sample(0, 10), Sample(90, 20)>>

Range(q) == {q[k] : k \in 1 .. Len(q)}

\* pushSubscriptions.splice(i, 1): nothing is removed when i is past the end
Splice(list, i) ==
    IF i \in 1 .. Len(list)
    THEN SubSeq(list, 1, i - 1) \o SubSeq(list, i + 1, Len(list))
    ELSE list

\* The loop arrives at index i: "i >= 0" fails and the function returns, or
\* "sub = pushSubscriptions[i]" is a subscriber and its delivery is awaited,
\* or it is undefined: the delivery is refused, and the catch block's
\* console.error(..., sub.endpoint, ...) throws a TypeError out of the loop.
Iterate(send, i, list) ==
    IF i < 1 THEN [send EXCEPT !.pc = "done", !.i = 0, !.sub = 0]
    ELSE IF i > Len(list) THEN [send EXCEPT !.pc = "threw", !.i = 0, !.sub = 0]
    ELSE [send EXCEPT !.pc = "deliver", !.i = i, !.sub = list[i], !.owed = @ \ {list[i]}]

\* sendPushNotification(title, body) up to its first await
sendPushNotification(caller, list) ==
    IF Len(list) = 0
    THEN [pc |-> "done", i |-> 0, sub |-> 0, owed |-> {}, caller |-> caller]
    ELSE Iterate([pc |-> "deliver", i |-> 0, sub |-> 0, owed |-> Range(list),
                  caller |-> caller],
                 Len(list), list)

\* GET /api/test-push answers in .then / .catch of the call it made
SettledResp(send) ==
    IF send.caller = "test-push" /\ send.pc = "done"
    THEN [endpoint |-> "api/test-push", status |-> 200]
    ELSE IF send.caller = "test-push" /\ send.pc = "threw"
    THEN [endpoint |-> "api/test-push", status |-> 500]
    ELSE resp

\* POST /api/subscribe, the body with an endpoint e or (0) without one
ApiSubscribe ==
    /\ \E e \in 0 .. MaxEndpoints :
         IF e \notin Endpoints
         THEN /\ resp' = [endpoint |-> "api/subscribe", status |-> 400]
              /\ UNCHANGED pushSubscriptions
         ELSE /\ pushSubscriptions' = IF e \in Range(pushSubscriptions)
                                      THEN pushSubscriptions
                                      ELSE Append(pushSubscriptions, e)
              /\ resp' = [endpoint |-> "api/subscribe", status |-> 201]
    /\ UNCHANGED <<data, billArgs, monitorVars, webVars, sends>>

\* GET /api/test-push
ApiTestPushWritesPeak ==
    /\ Len(sends) < MaxSends
    /\ LET send == sendPushNotification("test-push", pushSubscriptions)
       IN /\ sends' = Append(sends, send)
          /\ resp' = SettledResp(send)
    /\ dailyPeak' = [dailyPeak EXCEPT !.maxPower = 0]
    /\ UNCHANGED <<data, billArgs, halfThresholdAlertSent, today, latest, nSamples,
                   polls, polled, sent, webVars, pushSubscriptions>>

ApiTestPush ==
    /\ Len(sends) < MaxSends
    /\ LET send == sendPushNotification("test-push", pushSubscriptions)
       IN /\ sends' = Append(sends, send)
          /\ resp' = SettledResp(send)
    /\ UNCHANGED <<data, billArgs, monitorVars, webVars, pushSubscriptions>>

\* "await webpush.sendNotification(sub, payload)" resolves
DeliveryResolves(c) ==
    /\ sends[c].pc = "deliver"
    /\ LET send == Iterate(sends[c], sends[c].i - 1, pushSubscriptions)
       IN /\ sends' = [sends EXCEPT ![c] = send]
          /\ resp' = SettledResp(send)
    /\ UNCHANGED <<data, billArgs, monitorVars, webVars, pushSubscriptions>>

\* it rejects: the catch block removes index i on 410 and 404
DeliveryRejects(c) ==
    /\ sends[c].pc = "deliver"
    /\ \E status \in SendStatuses :
         LET list == IF status = 410 \/ status = 404
                     THEN Splice(pushSubscriptions, sends[c].i)
                     ELSE pushSubscriptions
             send == Iterate(sends[c], sends[c].i - 1, list)
         IN /\ pushSubscriptions' = list
            /\ sends' = [sends EXCEPT ![c] = send]
            /\ resp' = SettledResp(send)
    /\ UNCHANGED <<data, billArgs, monitorVars, webVars>>

\* checkDailyPeak of these versions once findOne has resolved: there is no
\* threshold test, and sendPushNotification is called and not awaited
FindOneReturnsInMem(i) ==
    /\ polls[i].pc = "findOne"
    /\ IF latest = <<>>
       THEN UNCHANGED <<dailyPeak, sends, polled>>
       ELSE LET powerNow == PowerNow(latest[1])
                peak     == ResetIfNewDay(dailyPeak, today)
            IN IF IsNewPeak(powerNow, peak.maxPower)
               THEN /\ Len(sends) < MaxSends
                    /\ dailyPeak' = [peak EXCEPT !.maxPower = powerNow]
                    /\ sends' = Append(sends,
                          sendPushNotification("checkDailyPeak", pushSubscriptions))
                    /\ polled' = Append(polled,
                          [poll |-> i, date |-> today, power |-> powerNow,
                           maxAfter |-> powerNow])
               ELSE /\ dailyPeak' = peak
                    /\ polled' = Append(polled,
                          [poll |-> i, date |-> today, power |-> powerNow,
                           maxAfter |-> peak.maxPower])
                    /\ UNCHANGED sends
    /\ polls' = [polls EXCEPT ![i] = DonePoll]
    /\ UNCHANGED <<energyVars, webVars, pushSubscriptions, halfThresholdAlertSent, today,
                   latest, nSamples, sent>>

SrvCronTick == Tick(MaxSrvPolls)

SrvMeterWrites == NewSample(SrvPowers, MaxSamples)

InitSrv ==
    /\ data = SrvWindow
    /\ resp = NoResp
    /\ billArgs = NoArgs
    /\ MonitorIdle
    /\ req = NoReq
    /\ PushIdle
    /\ WebIdle

NextSrv ==
    \/ SrvCronTick
    \/ SrvMeterWrites
    \/ Midnight
    \/ \E i \in 1 .. Len(polls) : FindOneFails(i)
    \/ \E i \in 1 .. Len(polls) : FindOneReturnsInMem(i)
    \/ ApiSubscribe
    \/ ApiTestPush
    \/ \E c \in 1 .. Len(sends) : DeliveryResolves(c)
    \/ \E c \in 1 .. Len(sends) : DeliveryRejects(c)
    \/ GetDailyBill
    \/ GetCalendar
    \/ GetDailyDiff
    \/ GetHourlyBill
    \/ GetHourlyBillOld
    \/ GetHourlySummary
    \/ GetSolarSize
    \/ GetSolarSizeDayNight

SpecSrv == InitSrv /\ [][NextSrv]_vars

-----------------------------------------------------------------------------
(* The version whose in-memory sendPushNotification first saves the        *)
(* notification to the database and then walks pushSubscriptions.  An      *)
(* execution also records whether it has saved (persisted) and which       *)
(* subscribers the list held when the loop read it (seen).                 *)

\* sendPushNotification(title, body, 'test') up to "await TestNotification.create"
SavingSend(caller) ==
    [pc |-> "persist", i |-> 0, sub |-> 0, owed |-> {}, seen |-> {},
     persisted |-> FALSE, caller |-> caller]

\* GET /api/test-push, which awaits the call
ApiTestPushSaved ==
    /\ Len(sends) < MaxSends
    /\ sends' = Append(sends, SavingSend("test-push"))
    /\ UNCHANGED <<data, resp, billArgs, monitorVars, webVars, pushSubscriptions>>

\* create() resolves: "if (!pushSubscriptions.length) return notification",
\* else the loop starts at the last index
PersistResolves(c) ==
    /\ sends[c].pc = "persist"
    /\ LET saved == [sends[c] EXCEPT !.persisted = TRUE, !.seen = Range(pushSubscriptions),
                                     !.owed = Range(pushSubscriptions)]
           send  == Iterate(saved, Len(pushSubscriptions), pushSubscriptions)
       IN /\ sends' = [sends EXCEPT ![c] = send]
          /\ resp' = SettledResp(send)
    /\ UNCHANGED <<data, billArgs, monitorVars, webVars, pushSubscriptions>>

\* create() rejects: the catch logs and rethrows
PersistRejects(c) ==
    /\ sends[c].pc = "persist"
    /\ LET send == [sends[c] EXCEPT !.pc = "threw"]
       IN /\ sends' = [sends EXCEPT ![c] = send]
          /\ resp' = SettledResp(send)
    /\ UNCHANGED <<data, billArgs, monitorVars, webVars, pushSubscriptions>>

InitSrv0 ==
    /\ data = <<>>
    /\ resp = NoResp
    /\ billArgs = NoArgs
    /\ req = NoReq
    /\ MonitorIdle
    /\ PushIdle
    /\ WebIdle

NextSrv0 ==
    \/ ApiSubscribe
    \/ ApiTestPushSaved
    \/ \E c \in 1 .. Len(sends) : PersistResolves(c)
    \/ \E c \in 1 .. Len(sends) : PersistRejects(c)
    \/ \E c \in 1 .. Len(sends) : DeliveryResolves(c)
    \/ \E c \in 1 .. Len(sends) : DeliveryRejects(c)

SpecSrv0 == InitSrv0 /\ [][NextSrv0]_vars

-----------------------------------------------------------------------------
(* Requests with a date: validation, the query and the answer.  A request  *)
(* carries the route, the date string it supplies ("" when it supplies     *)
(* none), whether the engine makes a valid Date of it and whether the      *)
(* database call rejects; data is what the query returns when it runs.     *)

TodayString == "2025-10-01"

DateStrings == {"", "2025-09-30", "2025-02-31", "2025-13-01", "2025-9-30", "30/09/2025"}

HttpRoutes == {"daily-bill", "daily-bill-agg", "hourly-bill", "hourly-bill-old",
               "hourly-summary", "solar-size", "solar-size-day-night",
               "minute-power-range", "raw-08-09", "raw-local"}

\* a window whose powers are all below zero (the meter reads export as
\* negative) and one that mixes the signs
ExportWindow == <<Sample(7 * MinPerHour, -3), Sample(8 * MinPerHour, -1)>>

MixedWindow == <<Sample(0, -2), Sample(30, 0), Sample(MinPerHour, 5)>>

HttpWindows == {<<>>, <<Sample(0, 10)>>, SrvWindow,
                <<Sample(5 * MinPerHour, 1), Sample(8 * MinPerHour, 20)>>,
                ExportWindow, MixedWindow}

IsDigit(c) == \E k \in 1 .. Len(Digits) : Digits[k] = c

DigitValue(c) == (CHOOSE k \in 1 .. Len(Digits) : Digits[k] = c) - 1

\* /^\d{4}-\d{2}-\d{2}$/.test(s)
DateFormatOk(s) ==
    /\ Len(s) = 10
    /\ \A k \in {1, 2, 3, 4, 6, 7, 9, 10} : IsDigit(SubSeq(s, k, k))
    /\ SubSeq(s, 5, 5) = "-"
    /\ SubSeq(s, 8, 8) = "-"

TwoDigits(s, k) == 10 * DigitValue(SubSeq(s, k, k)) + DigitValue(SubSeq(s, k + 1, k + 1))

DaysInMonth(y, m) ==
    IF m = 2 THEN (IF y % 4 = 0 /\ (y % 100 # 0 \/ y % 400 = 0) THEN 29 ELSE 28)
    ELSE IF m \in {4, 6, 9, 11} THEN 30 ELSE 31

\* Is new Date(`${s}T00:00:00Z`) a valid Date?  A month outside 01..12 or a
\* day outside 01..31 gives Invalid Date; a day of 29..31 that the month does
\* not have is carried into the next month by V8 and refused by other
\* engines; what a string of another format gives depends on the engine too.
ParseOutcomes(s) ==
    IF DateFormatOk(s)
    THEN LET y == 100 * TwoDigits(s, 1) + TwoDigits(s, 3)
             m == TwoDigits(s, 6)
             d == TwoDigits(s, 9)
         IN IF m \in 1 .. 12 /\ d \in 1 .. DaysInMonth(y, m) THEN {TRUE}
            ELSE IF m \in 1 .. 12 /\ d \in 1 .. 31 THEN {TRUE, FALSE}
            ELSE {FALSE}
    ELSE {TRUE, FALSE}

\* req.query.date || today
SelectedDate(rq) == IF rq.date = "" THEN TodayString ELSE rq.date

\* the date string the handler builds its Date objects from
QueriedDate(rq) ==
    IF rq.route \in {"daily-bill", "daily-bill-agg"} THEN SelectedDate(rq) ELSE rq.date

\* the condition of the handler's "return res.status(400)"
RejectsDate(rq) ==
    IF rq.route \in {"daily-bill", "daily-bill-agg"} THEN ~DateFormatOk(SelectedDate(rq))
    ELSE IF rq.route \in {"hourly-bill", "hourly-bill-old"} THEN ~DateFormatOk(rq.date)
    ELSE IF rq.route = "raw-local" THEN rq.date = ""
    ELSE rq.date = "" \/ ~DateFormatOk(rq.date)

\* the query throws (a cast error on an Invalid Date bound, or the database
\* call rejects) and the catch answers 500
QueryThrows(rq) == ~rq.parses \/ rq.dbFails

\* the try block of a route: 400, or 500 from the catch, or the answer
Respond(rq, answer) ==
    IF RejectsDate(rq) THEN [endpoint |-> rq.route, status |-> 400]
    ELSE IF QueryThrows(rq) THEN [endpoint |-> rq.route, status |-> 500]
    ELSE answer

\* the answer of /minute-power-range, /raw-08-09 and /raw-local: the samples
RawAnswer(rq, d) == [endpoint |-> rq.route, status |-> 200, count |-> Len(d)]

HttpRequests ==
    {rq \in [route : HttpRoutes, date : DateStrings, parses : BOOLEAN, dbFails : BOOLEAN] :
        /\ rq.parses \in ParseOutcomes(QueriedDate(rq))
        /\ (rq.route \in {"hourly-bill", "hourly-bill-old"} => rq.date # "")}

InitHttp ==
    /\ req \in HttpRequests
    /\ data \in HttpWindows
    /\ resp = NoResp
    /\ billArgs = NoArgs
    /\ MonitorIdle
    /\ PushIdle
    /\ WebIdle

Answer(route, answer) ==
    /\ req.route = route
    /\ resp = NoResp
    /\ resp' = Respond(req, answer)
    /\ UNCHANGED <<data, billArgs, monitorVars, webVars, pushVars>>

HttpDailyBill == Answer("daily-bill", DailyBill(data))

HttpDailyBillAgg == Answer("daily-bill-agg", DailyBillAgg(data))

\* the date asked for is not today's
HttpHourlyBill == Answer("hourly-bill", HourlyBill(data, FALSE, 0))

HttpHourlyBillOld == Answer("hourly-bill-old", HourlyBillOld(data))

HttpHourlySummary == Answer("hourly-summary", HourlySummary(data))

HttpSolarSize == Answer("solar-size", SolarSize(data))

HttpSolarSizeDayNight == Answer("solar-size-day-night", SolarSizeDayNight(data))

HttpMinutePowerRange == Answer("minute-power-range", RawAnswer(req, data))

HttpRaw0809 == Answer("raw-08-09", RawAnswer(req, data))

HttpRawLocal == Answer("raw-local", RawAnswer(req, data))

NextHttp ==
    \/ HttpDailyBill
    \/ HttpDailyBillAgg
    \/ HttpHourlyBill
    \/ HttpHourlyBillOld
    \/ HttpHourlySummary
    \/ HttpSolarSize
    \/ HttpSolarSizeDayNight
    \/ HttpMinutePowerRange
    \/ HttpRaw0809
    \/ HttpRawLocal

SpecHttp == InitHttp /\ [][NextHttp]_vars

-----------------------------------------------------------------------------
(* The router.  Express keeps the routes in the order of their app.get /   *)
(* app.patch / app.delete calls; handle(req, res) walks them from the      *)
(* first and runs the handler of the first whose method and path pattern   *)
(* match the request's method and URL path.  A path is the sequence of its *)
(* segments; a pattern segment that starts with ":" matches any segment.   *)

Routes ==
    << [method |-> "GET",    path |-> <<"daily-bill">>,                          handler |-> "daily-bill"],
       [method |-> "GET",    path |-> <<"daily-bill", ":date">>,                 handler |-> "daily-bill/:date"],
       [method |-> "GET",    path |-> <<"api", "notifications", ":id">>,         handler |-> "get/:id"],
       [method |-> "PATCH",  path |-> <<"api", "notifications", ":id", "read">>, handler |-> "patch/:id/read"],
       [method |-> "PATCH",  path |-> <<"api", "notifications", "read-all">>,    handler |-> "patch/read-all"],
       [method |-> "DELETE", path |-> <<"api", "notifications", ":id">>,         handler |-> "delete/:id"],
       [method |-> "DELETE", path |-> <<"api", "notifications", "clear-read">>,  handler |-> "delete/clear-read"] >>

NotificationIds == {"65a000000000000000000001", "65a000000000000000000002"}

RouterPaths ==
    {<<"daily-bill">>, <<"daily-bill", "2025-09-30">>, <<"daily-bill", "2025-9-30">>,
     <<"api", "notifications", "clear-read">>, <<"api", "notifications", "read-all">>}
    \cup {<<"api", "notifications", id>> : id \in NotificationIds}
    \cup {<<"api", "notifications", id, "read">> : id \in NotificationIds}

IsParam(seg) == SubSeq(seg, 1, 1) = ":"

Matches(route, method, path) ==
    /\ route.method = method
    /\ Len(route.path) = Len(path)
    /\ \A k \in 1 .. Len(path) : IsParam(route.path[k]) \/ route.path[k] = path[k]

\* req.params of the matched route (each pattern has at most one parameter)
ParamOf(route, path) == path[CHOOSE k \in 1 .. Len(path) : IsParam(route.path[k])]

\* the first route that matches, 0 when none does
FirstMatch(method, path) ==
    LET hits == {k \in 1 .. Len(Routes) : Matches(Routes[k], method, path)}
    IN IF hits = {} THEN 0 ELSE CHOOSE k \in hits : \A j \in hits : k <= j

Matched == Routes[FirstMatch(req.method, req.path)]

HexDigits == {"0", "1", "2", "3", "4", "5", "6", "7", "8", "9", "a", "b", "c", "d",
              "e", "f", "A", "B", "C", "D", "E", "F"}

\* can mongoose cast the string to an ObjectId: 24 hexadecimal characters
IsObjectId(s) ==
    /\ Len(s) = 24
    /\ \A k \in 1 .. 24 : SubSeq(s, k, k) \in HexDigits

Collections ==
    {{[id |-> i, isRead |-> f[i]] : i \in ids} : ids \in SUBSET NotificationIds,
                                                f \in [NotificationIds -> BOOLEAN]}

\* the /daily-bill handler reads req.query.date
AsDailyBill(rq) ==
    [route |-> "daily-bill", date |-> rq.date, parses |-> rq.parses, dbFails |-> rq.dbFails]

Failed(handler) == [endpoint |-> handler, status |-> 500]

NotFound(handler) == [endpoint |-> handler, status |-> 404]

\* GET /api/notifications/:id
GetNotification(id, coll, dbFails) ==
    IF dbFails \/ ~IsObjectId(id) THEN [resp |-> Failed("get/:id"), coll |-> coll]
    ELSE IF \E n \in coll : n.id = id
         THEN [resp |-> [endpoint |-> "get/:id", status |-> 200, id |-> id], coll |-> coll]
         ELSE [resp |-> NotFound("get/:id"), coll |-> coll]

\* PATCH /api/notifications/:id/read
PatchRead(id, coll, dbFails) ==
    IF dbFails \/ ~IsObjectId(id) THEN [resp |-> Failed("patch/:id/read"), coll |-> coll]
    ELSE IF \E n \in coll : n.id = id
         THEN [resp |-> [endpoint |-> "patch/:id/read", status |-> 200, id |-> id],
               coll |-> {IF n.id = id THEN [n EXCEPT !.isRead = TRUE] ELSE n : n \in coll}]
         ELSE [resp |-> NotFound("patch/:id/read"), coll |-> coll]

\* PATCH /api/notifications/read-all
PatchReadAll(coll, dbFails) ==
    IF dbFails THEN [resp |-> Failed("patch/read-all"), coll |-> coll]
    ELSE [resp |-> [endpoint |-> "patch/read-all", status |-> 200,
                    modifiedCount |-> Cardinality({n \in coll : ~n.isRead})],
          coll |-> {[n EXCEPT !.isRead = TRUE] : n \in coll}]

\* DELETE /api/notifications/:id
DeleteNotification(id, coll, dbFails) ==
    IF dbFails \/ ~IsObjectId(id) THEN [resp |-> Failed("delete/:id"), coll |-> coll]
    ELSE IF \E n \in coll : n.id = id
         THEN [resp |-> [endpoint |-> "delete/:id", status |-> 200, id |-> id],
               coll |-> {n \in coll : n.id # id}]
         ELSE [resp |-> NotFound("delete/:id"), coll |-> coll]

\* DELETE /api/notifications/clear-read
ClearRead(coll, dbFails) ==
    IF dbFails THEN [resp |-> Failed("delete/clear-read"), coll |-> coll]
    ELSE [resp |-> [endpoint |-> "delete/clear-read", status |-> 200,
                    deletedCount |-> Cardinality({n \in coll : n.isRead})],
          coll |-> {n \in coll : ~n.isRead}]

NotificationHandlers ==
    {"get/:id", "patch/:id/read", "patch/read-all", "delete/:id", "delete/clear-read"}

RunNotificationHandler(route, rq, coll) ==
    CASE route.handler = "get/:id"           -> GetNotification(ParamOf(route, rq.path), coll, rq.dbFails)
      [] route.handler = "patch/:id/read"    -> PatchRead(ParamOf(route, rq.path), coll, rq.dbFails)
      [] route.handler = "patch/read-all"    -> PatchReadAll(coll, rq.dbFails)
      [] route.handler = "delete/:id"        -> DeleteNotification(ParamOf(route, rq.path), coll, rq.dbFails)
      [] route.handler = "delete/clear-read" -> ClearRead(coll, rq.dbFails)

\* the date string /daily-bill will build its window from
DateOfRequest(rq) ==
    IF Len(rq.path) = 2 /\ rq.path[1] = "daily-bill" THEN rq.path[2]
    ELSE SelectedDate(rq)

RouterRequests ==
    {rq \in [method : {"GET", "PATCH", "DELETE"}, path : RouterPaths,
             date : {"", "2025-09-30"}, parses : BOOLEAN, dbFails : BOOLEAN] :
        /\ rq.parses \in ParseOutcomes(DateOfRequest(rq))
        /\ rq.date # "" => rq.path = <<"daily-bill">>}

\* app.handle(req, res) has been called for a request that arrived
InitRouter ==
    /\ req \in RouterRequests
    /\ data \in HttpWindows
    /\ notifications \in Collections
    /\ disp = [pc |-> "routing", handles |-> 1, before |-> notifications]
    /\ resp = NoResp
    /\ billArgs = NoArgs
    /\ MonitorIdle
    /\ PushIdle
    /\ WebIdleBut({"router"})

Routing(handlers) ==
    /\ disp.pc = "routing"
    /\ FirstMatch(req.method, req.path) # 0
    /\ Matched.handler \in handlers

\* no route matches: the final handler answers 404
RouteNone ==
    /\ disp.pc = "routing"
    /\ FirstMatch(req.method, req.path) = 0
    /\ resp' = NotFound("finalhandler")
    /\ disp' = [disp EXCEPT !.pc = "done"]
    /\ UNCHANGED <<data, billArgs, monitorVars, pushVars, notRouter, req, notifications>>

\* GET /daily-bill
RouteDailyBill ==
    /\ Routing({"daily-bill"})
    /\ resp' = Respond(AsDailyBill(req), DailyBill(data))
    /\ disp' = [disp EXCEPT !.pc = "done"]
    /\ UNCHANGED <<data, billArgs, monitorVars, pushVars, notRouter, req, notifications>>

\* GET /daily-bill/:date: req.query.date = req.params.date, then
\* app._router.handle(req, res) walks the routes again for the same URL
RouteDailyBillAlias ==
    /\ Routing({"daily-bill/:date"})
    /\ disp.handles < MaxHandles
    /\ req' = [req EXCEPT !.date = ParamOf(Matched, req.path)]
    /\ disp' = [disp EXCEPT !.handles = @ + 1]
    /\ UNCHANGED <<data, resp, billArgs, monitorVars, pushVars, notRouter, notifications>>

\* the nested handle calls have no end: either the call stack overflows and
\* the RangeError reaches the default error handler, which answers 500, or
\* the router defers to the event loop every 100 calls and goes on for ever
RouteDailyBillAliasExhausts ==
    /\ Routing({"daily-bill/:date"})
    /\ disp.handles = MaxHandles
    /\ \/ resp' = Failed("finalhandler") /\ disp' = [disp EXCEPT !.pc = "done"]
       \/ resp' = resp /\ disp' = [disp EXCEPT !.pc = "hung"]
    /\ UNCHANGED <<data, billArgs, monitorVars, pushVars, notRouter, req, notifications>>

\* the notification routes
RouteNotification ==
    /\ Routing(NotificationHandlers)
    /\ LET r == RunNotificationHandler(Matched, req, notifications)
       IN /\ resp' = r.resp
          /\ notifications' = r.coll
    /\ disp' = [disp EXCEPT !.pc = "done"]
    /\ UNCHANGED <<data, billArgs, monitorVars, pushVars, notRouter, req>>

NextRouter ==
    \/ RouteNone
    \/ RouteDailyBill
    \/ RouteDailyBillAlias
    \/ RouteDailyBillAliasExhausts
    \/ RouteNotification

SpecRouter == InitRouter /\ [][NextRouter]_vars

-----------------------------------------------------------------------------
(* GET /daily-diff-popup.  The session middleware gives each request its   *)
(* own copy of the stored session and stores the copy again when a request *)
(* that changed it has been answered.  Dates are the day numbers of the    *)
(* wall clock; lastPopupDate = 0 is a session that holds no such date.     *)

\* the handler up to "await axios.get(.../daily-diff)", or to its answer
\* showPopup: false when the session's copy holds today's date
PopupRequest ==
    /\ Len(popups) < MaxPopups
    /\ LET todayStr == today
           seen     == session.lastPopupDate
       IN IF seen = 0 \/ seen # todayStr
          THEN popups' = Append(popups, [pc |-> "axios", todayStr |-> todayStr,
                                         answer |-> "none"])
          ELSE popups' = Append(popups, [pc |-> "done", todayStr |-> todayStr,
                                         answer |-> "false"])
    /\ UNCHANGED <<energyVars, monitorVars, pushVars, notPopup, session>>

\* the inner call answered: req.session.lastPopupDate = todayStr, the answer
\* is showPopup: true and the changed session is stored
PopupInnerResolves(i) ==
    /\ i \in 1 .. Len(popups)
    /\ popups[i].pc = "axios"
    /\ session' = [lastPopupDate |-> popups[i].todayStr]
    /\ popups' = [popups EXCEPT ![i] = [@ EXCEPT !.pc = "done", !.answer = "true"]]
    /\ UNCHANGED <<energyVars, monitorVars, pushVars, notPopup>>

\* the inner call failed: the catch answers 500 with showPopup: false
PopupInnerRejects(i) ==
    /\ i \in 1 .. Len(popups)
    /\ popups[i].pc = "axios"
    /\ popups' = [popups EXCEPT ![i] = [@ EXCEPT !.pc = "done", !.answer = "500"]]
    /\ UNCHANGED <<energyVars, monitorVars, pushVars, notPopup, session>>

InitPopup ==
    /\ data = <<>>
    /\ resp = NoResp
    /\ billArgs = NoArgs
    /\ req = NoReq
    /\ MonitorIdle
    /\ PushIdle
    /\ WebIdle

NextPopup ==
    \/ PopupRequest
    \/ \E i \in 1 .. MaxPopups : PopupInnerResolves(i)
    \/ \E i \in 1 .. MaxPopups : PopupInnerRejects(i)
    \/ Midnight

SpecPopup == InitPopup /\ [][NextPopup]_vars

-----------------------------------------------------------------------------
(* POST /api/subscribe and POST /api/unsubscribe on the PushSubscription   *)
(* collection.  A document is {_id, endpoint, isActive}; the schema        *)
(* declares endpoint unique, so the insert of a second document for an     *)
(* endpoint is refused by the index.  save() of a document that was found  *)
(* writes the paths whose value the handler changed.                       *)

DbEndpoints == 1 .. MaxDbEndpoints

DocsOf(coll, endpoint) == {d \in coll : d.endpoint = endpoint}

NextId(coll) == Cardinality(coll) + 1

DoneCalls == {c \in 1 .. Len(calls) : calls[c].pc = "done"}

\* the handler up to its first await; a body without endpoint is answered 400
CallStarts(kind, endpoint) ==
    /\ Len(calls) < MaxCalls
    /\ calls' = Append(calls,
           IF endpoint = 0
           THEN [kind |-> kind, endpoint |-> 0, pc |-> "done", found |-> 0,
                 writes |-> FALSE, status |-> 400, after |-> DoneCalls]
           ELSE [kind |-> kind, endpoint |-> endpoint, pc |-> "findOne", found |-> 0,
                 writes |-> FALSE, status |-> 0, after |-> DoneCalls])
    /\ UNCHANGED <<energyVars, monitorVars, pushVars, notSubs, subscriptions>>

ApiSubscribeDb == \E endpoint \in 0 .. MaxDbEndpoints : CallStarts("subscribe", endpoint)

ApiUnsubscribeDb == \E endpoint \in 0 .. MaxDbEndpoints : CallStarts("unsubscribe", endpoint)

\* the insert of newSub.save(), the unique index not consulted
InsertUnchecked(coll, endpoint) ==
    [ok |-> TRUE,
     coll |-> coll \cup {[id |-> NextId(coll), endpoint |-> endpoint, isActive |-> TRUE]}]

\* the insert of newSub.save()
Insert(coll, endpoint) ==
    IF DocsOf(coll, endpoint) # {}
    THEN [ok |-> FALSE, coll |-> coll]
    ELSE [ok |-> TRUE,
          coll |-> coll \cup {[id |-> NextId(coll), endpoint |-> endpoint, isActive |-> TRUE]}]

\* await PushSubscription.findOne({ endpoint }) resolves
SubFindOneResolves(c) ==
    /\ c \in 1 .. Len(calls)
    /\ calls[c].pc = "findOne"
    /\ LET docs == DocsOf(subscriptions, calls[c].endpoint)
           wants == (calls[c].kind = "subscribe")
       IN IF docs = {}
          THEN calls' = [calls EXCEPT ![c] =
                   IF wants THEN [@ EXCEPT !.pc = "insert"]
                   ELSE [@ EXCEPT !.pc = "done", !.status = 404]]
          ELSE \E d \in docs :
                 calls' = [calls EXCEPT ![c] =
                     [@ EXCEPT !.pc = "save", !.found = d.id,
                               !.writes = (d.isActive # wants)]]
    /\ UNCHANGED <<energyVars, monitorVars, pushVars, notSubs, subscriptions>>

\* await existing.save() / sub.save() / newSub.save() resolves or is refused
SubSaveResolves(c) ==
    /\ c \in 1 .. Len(calls)
    /\ \/ /\ calls[c].pc = "save"
          /\ subscriptions' =
                 IF calls[c].writes
                 THEN {IF d.id = calls[c].found
                       THEN [d EXCEPT !.isActive = (calls[c].kind = "subscribe")]
                       ELSE d : d \in subscriptions}
                 ELSE subscriptions
          /\ calls' = [calls EXCEPT ![c] = [@ EXCEPT !.pc = "done", !.status = 200]]
       \/ /\ calls[c].pc = "insert"
          /\ LET r == Insert(subscriptions, calls[c].endpoint)
             IN /\ subscriptions' = r.coll
                /\ calls' = [calls EXCEPT ![c] =
                       [@ EXCEPT !.pc = "done", !.status = IF r.ok THEN 201 ELSE 500]]
    /\ UNCHANGED <<energyVars, monitorVars, pushVars, notSubs>>

\* a database call of the handler rejects: the catch answers 500
SubDbRejects(c) ==
    /\ c \in 1 .. Len(calls)
    /\ calls[c].pc \in {"findOne", "save", "insert"}
    /\ calls' = [calls EXCEPT ![c] = [@ EXCEPT !.pc = "done", !.status = 500]]
    /\ UNCHANGED <<energyVars, monitorVars, pushVars, notSubs, subscriptions>>

InitSubs ==
    /\ subscriptions \in
          {{}} \cup {{[id |-> 1, endpoint |-> 1, isActive |-> b]} : b \in BOOLEAN}
    /\ calls = <<>>
    /\ data = <<>>
    /\ resp = NoResp
    /\ billArgs = NoArgs
    /\ req = NoReq
    /\ MonitorIdle
    /\ PushIdle
    /\ WebIdleBut({"subs"})

NextSubs ==
    \/ ApiSubscribeDb
    \/ ApiUnsubscribeDb
    \/ \E c \in 1 .. MaxCalls : SubFindOneResolves(c)
    \/ \E c \in 1 .. MaxCalls : SubSaveResolves(c)
    \/ \E c \in 1 .. MaxCalls : SubDbRejects(c)

SpecSubs == InitSubs /\ [][NextSubs]_vars

-----------------------------------------------------------------------------
(* Day windows.  One sample with timestamp stamp is in the collection; a     *)
(* date is the number of its day since the epoch, so that the Date parsed    *)
(* from `${date}T00:00:00Z` is date * MsPerDay milliseconds.                  *)

MsPerSecond == 1000

MsPerDay == 24 * 3600 * MsPerSecond

MaxDate == 2

Dates == 0 .. MaxDate

\* new Date(`${dateStr}T00:00:00Z`), new Date(dateStr + "T00:00:00.000Z")
DayStart(date) == date * MsPerDay

\* new Date(`${dateStr}T23:59:59Z`)
DayLastSecond(date) == date * MsPerDay + MsPerDay - MsPerSecond

\* new Date(dateStr + "T23:59:59.999Z")
DayLastMs(date) == date * MsPerDay + MsPerDay - 1

\* getDayRangeUTC(dateStr)
getDayRangeUTC(date) == [start |-> DayStart(date), end |-> DayLastSecond(date)]

\* getDayRange(dateStr) of the version that aggregates in the database
getDayRange(date) == [start |-> DayStart(date), end |-> DayLastMs(date)]

\* find({ timestamp: { $gte: start, $lte: end } }) of /daily-bill
DailyBillSelects(date, t) ==
    LET range == getDayRangeUTC(date) IN t >= range.start /\ t <= range.end

\* $match: { timestamp: { $gte: start, $lte: end } } of the aggregating /daily-bill
DailyBillAggSelects(date, t) ==
    LET range == getDayRange(date) IN t >= range.start /\ t <= range.end

\* find({ timestamp: { $gte: ...T00:00:00Z, $lt: ...T23:59:59Z } }) of /calendar
CalendarSelects(date, t) == t >= DayStart(date) /\ t < DayLastSecond(date)

\* $dateToString: { format: "%Y-%m-%d", date: "$timestamp", timezone: "UTC" }
dateToString(t) == t \div MsPerDay

\* the milliseconds of the day at which the samples of the model are taken
DayOffsets == {0, 1, 999, MsPerSecond, MsPerDay \div 2, MsPerDay - MsPerSecond - 1,
               MsPerDay - MsPerSecond, MsPerDay - MsPerSecond + 1,
               MsPerDay - 500, MsPerDay - 1}

Stamps == {DayStart(date) + o : date \in Dates, o \in DayOffsets}

InitWindow ==
    /\ stamp \in Stamps
    /\ selected = NoSelection
    /\ data = <<>>
    /\ resp = NoResp
    /\ billArgs = NoArgs
    /\ req = NoReq
    /\ MonitorIdle
    /\ PushIdle
    /\ WebIdleBut({"window"})

\* GET /daily-bill?date= runs its query
QueryDailyBill(date) ==
    /\ date \notin selected.billAsked
    /\ selected' = [selected EXCEPT
          !.billAsked = @ \cup {date},
          !.bill = IF DailyBillSelects(date, stamp) THEN @ \cup {date} ELSE @]
    /\ UNCHANGED <<stamp, energyVars, monitorVars, pushVars, notWindow>>

\* GET /daily-bill?date= of the aggregating version runs its $match
QueryDailyBillAgg(date) ==
    /\ date \notin selected.aggAsked
    /\ selected' = [selected EXCEPT
          !.aggAsked = @ \cup {date},
          !.agg = IF DailyBillAggSelects(date, stamp) THEN @ \cup {date} ELSE @]
    /\ UNCHANGED <<stamp, energyVars, monitorVars, pushVars, notWindow>>

\* GET /calendar groups the samples by dateToString and queries the window
\* of each date it found: with one sample, the window of that sample's date
QueryCalendar ==
    LET date == dateToString(stamp)
    IN /\ selected.calendarAsked = {}
       /\ selected' = [selected EXCEPT
             !.calendarAsked = {date},
             !.calendar = IF CalendarSelects(date, stamp) THEN {date} ELSE {}]
       /\ UNCHANGED <<stamp, energyVars, monitorVars, pushVars, notWindow>>

NextWindow ==
    \/ \E date \in Dates : QueryDailyBill(date)
    \/ \E date \in Dates : QueryDailyBillAgg(date)
    \/ QueryCalendar

SpecWindow == InitWindow /\ [][NextWindow]_vars

-----------------------------------------------------------------------------
(* The hour-splitting loop of addEnergyToHours / addEnergy, one turn of the  *)
(* while loop per step.  split holds the locals start and end, twice the     *)
(* power (prev.power + curr.power), the buckets, and as history the          *)
(* timestamp the cursor started from, the number of turns and the bucket     *)
(* indices written.                                                          *)

MaxSplitPower == 2

SplitStamps == {0, 30, 59, MinPerHour, MinPerHour + 1, 2 * MinPerHour, 3 * MinPerHour + 5,
                23 * MinPerHour + 50, 24 * MinPerHour, 24 * MinPerHour + 10,
                25 * MinPerHour}

SplitSamples == {Sample(t, p) : t \in SplitStamps, p \in 1 .. MaxSplitPower}

\* "let start = new Date(prev.timestamp); const end = new Date(curr.timestamp);
\*  const power = (prev.power + curr.power) / 2;"
SplitCalled(prev, curr) ==
    [pc |-> "while", start |-> prev.timestamp, end |-> curr.timestamp,
     power2 |-> prev.power + curr.power, hourlyEnergy |-> ZeroHours,
     first |-> prev.timestamp, iterations |-> 0, written |-> {}]

InitSplit ==
    /\ split \in {SplitCalled(prev, curr) : prev \in SplitSamples, curr \in SplitSamples}
    /\ data = <<>>
    /\ resp = NoResp
    /\ billArgs = NoArgs
    /\ req = NoReq
    /\ MonitorIdle
    /\ PushIdle
    /\ WebIdleBut({"split"})

\* "while (start < end)" holds: one turn of the body
SplitIterates ==
    /\ split.pc = "while"
    /\ split.start < split.end
    /\ LET nextHour    == NextHourStart(split.start)
           intervalEnd == IF nextHour < split.end THEN nextHour ELSE split.end
           hourKey     == getHours(split.start)
       IN split' = [split EXCEPT
             !.hourlyEnergy[hourKey] = @ + split.power2 * (intervalEnd - split.start),
             !.start = intervalEnd,
             !.iterations = @ + 1,
             !.written = @ \cup {hourKey}]
    /\ UNCHANGED <<energyVars, monitorVars, pushVars, notSplit>>

\* "while (start < end)" fails: the function returns
SplitReturns ==
    /\ split.pc = "while"
    /\ ~(split.start < split.end)
    /\ split' = [split EXCEPT !.pc = "done"]
    /\ UNCHANGED <<energyVars, monitorVars, pushVars, notSplit>>

NextSplit ==
    \/ SplitIterates
    \/ SplitReturns

SpecSplit == InitSplit /\ [][NextSplit]_vars

\* the loop is synchronous code: a turn that can run does run
FairSplit == SpecSplit /\ WF_vars(NextSplit)

-----------------------------------------------------------------------------
(* Properties of the energy integrator and the billing calculator *)

\* the energy of the pair (d[i-1], d[i]) written out: (p0 + p1) / 2 * hours, over EDen
Trapezoid(d, i) ==
    (d[i - 1].power + d[i].power) * (d[i].timestamp - d[i - 1].timestamp)

RECURSIVE SumOfPairs(_, _)
SumOfPairs(d, i) == IF i > Len(d) THEN 0 ELSE Trapezoid(d, i) + SumOfPairs(d, i + 1)

\* minutes of [a, b) that lie in clock hour h of the day
Overlap(a, b, h) ==
    LET lo == IF a > h * MinPerHour THEN a ELSE h * MinPerHour
        hi == IF b < (h + 1) * MinPerHour THEN b ELSE (h + 1) * MinPerHour
    IN IF hi > lo THEN hi - lo ELSE 0

RECURSIVE Prorated(_, _, _)
Prorated(d, i, h) ==
    IF i > Len(d) THEN 0
    ELSE (d[i - 1].power + d[i].power) * Overlap(d[i - 1].timestamp, d[i].timestamp, h)
         + Prorated(d, i + 1, h)

TwoSamples == Len(data) = 2 /\ data[1].timestamp < data[2].timestamp

\* C1: for a window of exactly two samples (t0,p0),(t1,p1), t0 < t1, the
\* integrator's total is (p0+p1)/2 * (t1-t0 in hours), the hour buckets that
\* addEnergy produces for the pair add up to the same value whether or not the
\* pair crosses an hour boundary, and (00:00,10kW),(01:00,20kW) gives 15 kWh
\* and a bill of 66.00.
C1_TwoSampleEnergy ==
    TwoSamples =>
        /\ resp.endpoint = "daily-bill" =>
              /\ resp.totalEnergyKwh = Trapezoid(data, 2)
              /\ data = <<Sample(0, 10), Sample(MinPerHour, 20)>> =>
                    /\ resp.total_energy_kwh = 1500
                    /\ resp.electricity_bill = 6600
        /\ resp.endpoint = "hourly-bill" =>
              SumFun(resp.hourlyEnergyLoop, Hours) = Trapezoid(data, 2)
        /\ resp.endpoint \in {"solar-size", "solar-size-day-night"} =>
              SumFun(resp.hourlyEnergy, Hours) = Trapezoid(data, 2)

C1_Witness ==
    /\ TwoSamples
    /\ resp.endpoint = "hourly-bill"
    /\ data[2].timestamp > NextHourStart(data[1].timestamp)
    /\ resp.hourlyEnergyLoop[getHours(data[1].timestamp)] > 0
    /\ resp.hourlyEnergyLoop[getHours(data[2].timestamp)] > 0

\* C2: additivity: the total of the integration loop is the sum of the
\* energies of the n-1 consecutive pairs, and integrating [s1..sk] and [sk..sn]
\* separately and adding gives the one-pass total, for every split point k.
C2_Additivity ==
    /\ (resp.endpoint = "daily-bill" /\ Len(data) >= 2) =>
          /\ resp.totalEnergyKwh = SumOfPairs(data, 2)
          /\ \A k \in 1 .. Len(data) :
                Integrate(SubSeq(data, 1, k)) + Integrate(SubSeq(data, k, Len(data)))
                    = resp.totalEnergyKwh
    /\ (resp.endpoint = "daily-diff" /\ Len(data) >= 2) =>
          /\ resp.yesterday.totalEnergyKwh = SumOfPairs(data, 2)
          /\ \A k \in 1 .. Len(data) :
                getDailyEnergy(SubSeq(data, 1, k)).totalEnergyKwh
                  + getDailyEnergy(SubSeq(data, k, Len(data))).totalEnergyKwh
                    = resp.yesterday.totalEnergyKwh

C2_Witness ==
    /\ resp.endpoint = "daily-bill"
    /\ Len(data) = 3
    /\ Trapezoid(data, 2) > 0
    /\ Trapezoid(data, 3) > 0
    /\ Trapezoid(data, 2) # Trapezoid(data, 3)

\* C3: partition completeness: the 24 hour buckets of /hourly-bill,
\* /hourly-summary and /solar-size, before rounding, add up to the unbucketed
\* total /daily-bill computes for the same samples.
C3_PartitionComplete ==
    resp.endpoint \in {"hourly-bill", "hourly-summary", "solar-size",
                       "solar-size-day-night"} =>
        SumFun(resp.hourlyEnergy, Hours) = Integrate(data)

\* C4: hour-boundary proration: every hourly endpoint credits bucket h with
\* avgPower times the overlap of [t_prev, t_curr) with clock hour h.
C4_Proration ==
    /\ resp.endpoint = "hourly-bill" =>
          \A h \in Hours : resp.hourlyEnergyLoop[h] = Prorated(data, 2, h)
    /\ resp.endpoint \in {"hourly-bill-old", "hourly-summary", "solar-size",
                          "solar-size-day-night"} =>
          \A h \in Hours : resp.hourlyEnergy[h] = Prorated(data, 2, h)

\* C5: rounding only at the presentation boundary: every reported bill and
\* aggregate is round2 of a value computed from unrounded energies.
C5_RoundOnlyAtEnd ==
    /\ resp.endpoint = "calendar" =>
          resp.bill = toFixed2(resp.totalEnergyKwh * RateNum, EDen * RateDen)
    /\ (resp.endpoint \in {"hourly-bill", "hourly-bill-old", "hourly-summary"}
          /\ resp.status = 200) =>
          \A h \in Hours :
              resp.hourly[h].electricity_bill
                  = toFixed2(resp.hourlyEnergy[h] * RateNum, EDen * RateDen)
    /\ resp.endpoint = "solar-size" =>
          resp.totalEnergyKwh = toFixed2(SumFun(resp.hourlyEnergy, DayHours), EDen)
    /\ resp.endpoint = "solar-size-day-night" =>
          /\ resp.dayEnergy = toFixed2(SumFun(resp.hourlyEnergy, DayHours), EDen)
          /\ resp.nightEnergy = toFixed2(SumFun(resp.hourlyEnergy, Hours \ DayHours), EDen)
          /\ resp.totalEnergyKwh = toFixed2(SumFun(resp.hourlyEnergy, Hours), EDen)

\* C6: calculateBill is total and bill(e, r) = round(e * r, 2): the hundredths
\* nearest to e * r (the upper one of two equally near), with r = 4.4 when no
\* rate is passed, and bill(0, r) = 0.
C6_BillIsRound2 ==
    resp.endpoint = "calculateBill" =>
        LET n == billArgs.en * (IF billArgs.given = "energy" THEN RateNum ELSE billArgs.rn)
            d == EDen * (IF billArgs.given = "energy" THEN RateDen ELSE billArgs.rd)
            err2 == 2 * (100 * n - resp.bill * d)
        IN /\ resp.bill \in Nat
           /\ -d <= err2 /\ err2 < d
           /\ billArgs.en = 0 => resp.bill = 0

C6_Witness ==
    /\ resp.endpoint = "calculateBill"
    /\ billArgs.given = "energy"
    /\ billArgs.en > 0
    /\ resp.bill * EDen * RateDen > 100 * billArgs.en * RateNum

-----------------------------------------------------------------------------
(* Properties of the peak / threshold monitor *)

SetMax(S) == CHOOSE x \in S : \A y \in S : y <= x

PeakPowers == [n \in 1 .. Len(SelectSeq(sent, LAMBDA m : m.type = "peak")) |->
                  SelectSeq(sent, LAMBDA m : m.type = "peak")[n].power]

PeakPollsOf == [n \in 1 .. Len(SelectSeq(sent, LAMBDA m : m.type = "peak")) |->
                  SelectSeq(sent, LAMBDA m : m.type = "peak")[n].poll]

PolledPowers == [k \in 1 .. Len(polled) |-> polled[k].power]

\* the six polls of one day have observed 5, 8, 3, 9, 9, 12 and have finished
SixPollsDone ==
    /\ PolledPowers = <<5, 8, 3, 9, 9, 12>>
    /\ \A k \in 1 .. Len(polled) : polled[k].date = polled[1].date /\ polled[k].poll = k
    /\ AllPollsDone

\* C7 as stated: from the initial monitor state, polls observing 5, 8, 3, 9, 9,
\* 12 on one day emit exactly two new-peak notifications, at 8 and at 12.
C7_TwoPeaks == SixPollsDone => PeakPowers = <<8, 12>>

\* C7 as amended: they emit exactly four, at 5, at 8, at the first 9 and at
\* 12, and none at 3 and at the second 9.
C7_FourPeaks == SixPollsDone => (PeakPowers = <<5, 8, 9, 12>> /\ PeakPollsOf = <<1, 2, 4, 6>>)

C7_Witness == SixPollsDone /\ Len(sent) > 0

EarlierSameDate(k) ==
    {polled[j].power : j \in {j \in 1 .. (k - 1) : polled[j].date = polled[k].date}}

EmittedPeak(k) ==
    \E n \in 1 .. Len(sent) : sent[n].type = "peak" /\ sent[n].poll = polled[k].poll

\* dailyPeak.maxPower as the earlier polls of the date left it
MaxBefore(k) ==
    LET before == {j \in 1 .. (k - 1) : polled[j].date = polled[k].date}
    IN IF before = {} THEN 0 ELSE polled[SetMax(before)].maxAfter

\* C8 as stated: a poll emits a new-peak notification iff its power is
\* strictly greater than the maximum power polled earlier on the same date (0
\* for the first poll of the date), and after every poll maxPower is the
\* maximum power observed so far on the date.
C8_PeakIffAboveEarlier ==
    \A k \in 1 .. Len(polled) :
        /\ EmittedPeak(k) <=>
              polled[k].power > (IF EarlierSameDate(k) = {} THEN 0
                                 ELSE SetMax(EarlierSameDate(k)))
        /\ polled[k].maxAfter = SetMax(EarlierSameDate(k) \cup {polled[k].power})

\* C8 as amended: a poll emits a new-peak notification iff it raises
\* maxPower, iff its power is strictly greater than the larger of 0 and the
\* powers polled earlier on the same date; a poll whose power equals the
\* current maximum emits nothing; after every poll maxPower is the larger of 0
\* and the powers observed so far on the current date.
C8_PeakIffAboveFloor ==
    /\ \A k \in 1 .. Len(polled) :
          /\ EmittedPeak(k) <=> polled[k].power > SetMax(EarlierSameDate(k) \cup {0})
          /\ EmittedPeak(k) <=> polled[k].maxAfter > MaxBefore(k)
          /\ polled[k].maxAfter = SetMax(EarlierSameDate(k) \cup {polled[k].power, 0})
    /\ Len(polled) > 0 =>
          /\ dailyPeak.date = polled[Len(polled)].date
          /\ dailyPeak.maxPower = polled[Len(polled)].maxAfter

C8_Witness ==
    \E k \in 1 .. Len(polled) :
        /\ EarlierSameDate(k) # {}
        /\ polled[k].power = SetMax(EarlierSameDate(k))
        /\ polled[k].power > 0
        /\ ~EmittedPeak(k)
        /\ polls[polled[k].poll].pc = "done"

\* C9: day rollover: the step in which a poll observes a date other than
\* dailyPeak.date leaves dailyPeak = {date: today, maxPower: 0} raised by the
\* sample alone and the flag reset, so the sample is compared with 0 and not
\* with the previous day's maximum: a positive sample is a new peak.
C9_Rollover ==
    [][(Len(polled') = Len(polled) + 1 /\ dailyPeak.date # today) =>
          LET e == polled'[Len(polled')]
              threshold == /\ Len(sent') = Len(sent) + 1
                           /\ sent'[Len(sent')].type = "threshold"
          IN /\ dailyPeak'.date = today
             /\ dailyPeak'.maxPower = (IF e.power > 0 THEN e.power ELSE 0)
             /\ (e.power > 0) <=> (/\ Len(sent') = Len(sent) + 1
                                   /\ sent'[Len(sent')].type = "peak"
                                   /\ sent'[Len(sent')].power = e.power)
             /\ halfThresholdAlertSent' <=> threshold
             /\ threshold => (e.power <= 0 /\ e.power >= halfMaxKW)]_vars

C9_Witness ==
    \E n \in 1 .. Len(sent), k \in 1 .. Len(polled) :
        /\ sent[n].type = "peak"
        /\ sent[n].pollDate = MaxDay
        /\ polled[k].date < MaxDay
        /\ polled[k].maxAfter > sent[n].power
        /\ dailyPeak = [date |-> MaxDay, maxPower |-> sent[n].power]

\* C10: per calendar date at most one threshold-crossed notification is
\* emitted, however many polls of the date are at or above the threshold and
\* even when poll executions overlap.
C10_OncePerDate ==
    \A a, b \in 1 .. Len(sent) :
        (/\ sent[a].type = "threshold"
         /\ sent[b].type = "threshold"
         /\ sent[a].pollDate = sent[b].pollDate) => a = b

-----------------------------------------------------------------------------
(* Properties of the monitor among overlapping polls and request handlers *)

\* C11: under every interleaving of overlapping polls and request handlers,
\* dailyPeak.maxPower never decreases while dailyPeak.date stays the same; a
\* step that lowers it is the step that moves dailyPeak.date to today's date.
C11_MaxPowerMonotonic ==
    [][/\ dailyPeak'.date = dailyPeak.date =>
              dailyPeak'.maxPower >= dailyPeak.maxPower
       /\ dailyPeak'.maxPower < dailyPeak.maxPower =>
              (dailyPeak'.date # dailyPeak.date /\ dailyPeak'.date = today)]_vars

\* the maximum fell from 12 to 8 at the day change, two polls having been in
\* flight together at some time, and a request handler has answered
C11_Witness ==
    /\ dailyPeak = [date |-> MaxDay, maxPower |-> 8]
    /\ \E k \in 1 .. Len(polled) : polled[k].date < MaxDay /\ polled[k].maxAfter = 12
    /\ \E k \in 1 .. Len(polled) : polled[k].poll = 2 /\ polled[Len(polled)].poll = 1
    /\ resp # NoResp

\* a poll has passed the await of findOne in this step
PollStep == \E i \in 1 .. Len(polls) : polls[i].pc = "findOne" /\ polls'[i].pc # "findOne"

\* a request handler (or the sendPushNotification it called) has acted
HandlerStep ==
    /\ polls' = polls
    /\ resp' # resp \/ pushSubscriptions' # pushSubscriptions \/ sends' # sends

\* C12: no request handler writes the monitor's state: a handler step leaves
\* dailyPeak and the threshold flag as they are, and a step that changes
\* either of them is a step of checkDailyPeak.
C12_HandlersLeaveMonitor ==
    [][/\ HandlerStep => UNCHANGED <<dailyPeak, halfThresholdAlertSent>>
       /\ (dailyPeak' # dailyPeak \/ halfThresholdAlertSent' # halfThresholdAlertSent)
              => PollStep]_vars

\* handlers have subscribed and sent a test push while the monitor holds a
\* maximum it has recorded
C12_Witness ==
    /\ dailyPeak.maxPower = 12
    /\ Len(pushSubscriptions) > 0
    /\ resp = [endpoint |-> "api/test-push", status |-> 200]
    /\ \E c \in 1 .. Len(sends) :
          sends[c].caller = "test-push" /\ sends[c].pc = "done" /\ sends[c].owed = {}

\* C13: per-recipient failure isolation: a sendPushNotification that has
\* ended has tried every subscriber of the list it started with that is still
\* subscribed, whatever failed on the way, and no call made by checkDailyPeak
\* ends with an exception.
C13_FailureIsolation ==
    \A c \in 1 .. Len(sends) :
        /\ sends[c].pc \in {"done", "threw"} =>
               sends[c].owed \cap Range(pushSubscriptions) = {}
        /\ sends[c].caller = "checkDailyPeak" => sends[c].pc # "threw"

\* C14: a poll whose fetch of the latest sample fails changes neither
\* dailyPeak nor the threshold flag and emits nothing, and a poll that
\* evaluates a sample after some poll has failed evaluates the sample that is
\* the latest then, against the state the failure left untouched.
C14_FetchFailure ==
    [][/\ \A i \in 1 .. Len(polls) :
             (polls[i].pc = "findOne" /\ polls'[i].pc = "failed") =>
                 UNCHANGED <<dailyPeak, halfThresholdAlertSent, sent, polled>>
       /\ (/\ Len(polled') = Len(polled) + 1
           /\ \E j \in 1 .. Len(polls) : polls[j].pc = "failed") =>
             LET e    == polled'[Len(polled')]
                 base == IF dailyPeak.date = today THEN dailyPeak.maxPower ELSE 0
             IN /\ latest # <<>>
                /\ e.power = PowerNow(latest[1])
                /\ e.date = today
                /\ e.maxAfter = (IF e.power > base THEN e.power ELSE base)
                /\ dailyPeak' = [date |-> today, maxPower |-> e.maxAfter]
                /\ (e.power > base) <=>
                       (/\ Len(sent') > Len(sent)
                        /\ sent'[Len(sent) + 1].type = "peak"
                        /\ sent'[Len(sent) + 1].power = e.power)]_vars

\* poll 1 evaluated a sample, poll 2 failed, poll 3 reported a new peak
C14_Witness ==
    /\ Len(polls) >= 3
    /\ polls[2].pc = "failed"
    /\ \E k \in 1 .. Len(polled) : polled[k].poll = 1 /\ polled[k].maxAfter > 0
    /\ \E k \in 1 .. Len(polled) : polled[k].poll = 3 /\ EmittedPeak(k)
    /\ polled[Len(polled)].poll = 3

\* the query of the request ran: the date was accepted and nothing threw
QueryRan == resp # NoResp /\ ~RejectsDate(req) /\ ~QueryThrows(req)

\* C15: when the day window queried by /daily-bill holds no samples, the
\* answer is a 404 whose total_energy_kwh and electricity_bill are 0.
C15_NoData404 ==
    (/\ resp.endpoint \in {"daily-bill", "daily-bill-agg"}
     /\ QueryRan
     /\ Len(data) = 0) =>
        /\ resp.status = 404
        /\ resp.total_energy_kwh = 0
        /\ resp.electricity_bill = 0

\* /daily-bill without a date, answered 404 for today's empty window
C15_Witness ==
    /\ resp.endpoint = "daily-bill"
    /\ req.date = ""
    /\ Len(data) = 0
    /\ resp.status = 404

Summarizers == {"daily-bill", "daily-bill-agg", "hourly-bill", "hourly-bill-old",
                "hourly-summary", "solar-size", "solar-size-day-night"}

\* the fields of the 200 answer of a summarizer
OkKeys(route) ==
    CASE route = "daily-bill"           -> DailyBill(SrvWindow).keys
      [] route = "daily-bill-agg"       -> DailyBillAgg(SrvWindow).keys
      [] route = "hourly-bill"          -> HourlyBill(SrvWindow, FALSE, 0).keys
      [] route = "hourly-bill-old"      -> HourlyBillOld(SrvWindow).keys
      [] route = "hourly-summary"       -> HourlySummary(SrvWindow).keys
      [] route = "solar-size"           -> SolarSize(SrvWindow).keys
      [] route = "solar-size-day-night" -> SolarSizeDayNight(SrvWindow).keys

\* C16: the answer of a summarizer for a window without samples is a 404
\* that has every field of the endpoint's 200 answer (and may name the
\* error besides).
C16_NoDataShape ==
    (/\ resp.endpoint \in Summarizers
     /\ QueryRan
     /\ Len(data) = 0) =>
        /\ resp.status = 404
        /\ resp.keys \ {"error"} = OkKeys(resp.endpoint)

\* C17: a request is answered 400 exactly when the date it supplies does not
\* match the format (for /daily-bill, the date after a missing one has been
\* replaced by today's); 2025-02-31 is never answered 400.
C17_BadRequestIffMalformed ==
    resp # NoResp =>
        /\ (resp.status = 400) <=> ~DateFormatOk(QueriedDate(req))
        /\ req.date = "2025-02-31" => resp.status # 400

HourLabels ==
    <<"00:00", "01:00", "02:00", "03:00", "04:00", "05:00", "06:00", "07:00",
      "08:00", "09:00", "10:00", "11:00", "12:00", "13:00", "14:00", "15:00",
      "16:00", "17:00", "18:00", "19:00", "20:00", "21:00", "22:00", "23:00">>

\* C18: an answer of /hourly-bill/:date or /hourly-summary to an accepted
\* date whose query ran has 24 entries, the h-th labelled h:00, each with
\* energy_kwh and electricity_bill, also when the day has no samples.
C18_TwentyFourEntries ==
    (/\ resp.endpoint \in {"hourly-bill", "hourly-bill-old", "hourly-summary"}
     /\ QueryRan) =>
        /\ DOMAIN resp.hourly = 0 .. 23
        /\ \A h \in DOMAIN resp.hourly :
              /\ resp.hourly[h].hour = HourLabels[h + 1]
              /\ DOMAIN resp.hourly[h] = {"hour", "energy_kwh", "electricity_bill"}

\* the energy_kwh the answer reports for each hour
ReportedKwh == [h \in Hours |-> resp.hourly[h].energy_kwh]

C20_DiffDirection ==
    resp.endpoint \in {"daily-diff", "daily-diff-old"} =>
        /\ resp.diff.kWh = resp.yesterday.energy_kwh - resp.dayBefore.energy_kwh
        /\ resp.diff.electricity_bill =
               resp.yesterday.electricity_bill - resp.dayBefore.electricity_bill

AliasPath == Len(req.path) = 2 /\ req.path[1] = "daily-bill"

\* C21: a request that GET /daily-bill/:date has handed back to the router is
\* not given to GET /daily-bill/:date again, and the answer it gets is the
\* answer of GET /daily-bill for the date of the path.
C21_AliasIsDailyBill ==
    (AliasPath /\ req.method = "GET") =>
        /\ (disp.pc = "routing" /\ disp.handles > 1) => Matched.handler = "daily-bill"
        /\ disp.pc = "done" =>
              resp = Respond([AsDailyBill(req) EXCEPT !.date = req.path[2]], DailyBill(data))
        /\ disp.pc # "hung"

\* C25: DELETE /api/notifications/clear-read is answered by the clear-read
\* handler: unless the database call fails the answer is 200 with the number
\* of read notifications, these are gone and the unread ones are all there.
C25_ClearReadOwnHandler ==
    (/\ disp.pc = "done"
     /\ req.method = "DELETE"
     /\ req.path = <<"api", "notifications", "clear-read">>
     /\ ~req.dbFails) =>
        /\ resp.endpoint = "delete/clear-read"
        /\ resp.status = 200
        /\ resp.deletedCount = Cardinality({n \in disp.before : n.isRead})
        /\ notifications = {n \in disp.before : ~n.isRead}

\* C24: of the requests of one session that computed the same date, at most
\* one is answered showPopup: true, also when requests overlap.
C24_PopupOncePerDate ==
    \A i, j \in 1 .. Len(popups) :
        (/\ popups[i].answer = "true"
         /\ popups[j].answer = "true"
         /\ popups[i].todayStr = popups[j].todayStr) => i = j

\* the successful calls for an endpoint
Succeeded(endpoint) ==
    {c \in DoneCalls : calls[c].endpoint = endpoint /\ calls[c].status \in {200, 201}}

\* those of them that no other one started after
MostRecent(endpoint) ==
    {c \in Succeeded(endpoint) : \A c2 \in Succeeded(endpoint) : c \notin calls[c2].after}

C22_SpliceRemovesOwn ==
    [][\A c \in 1 .. Len(sends) :
          (sends[c].pc = "deliver" /\ sends'[c] # sends[c]) =>
              /\ Range(pushSubscriptions) \ Range(pushSubscriptions') \subseteq {sends[c].sub}
              /\ sends'[c].pc = "deliver" => sends'[c].sub \in sends[c].owed
              /\ sends'[c].pc = "done" =>
                     sends'[c].owed \cap Range(pushSubscriptions') = {}]_vars

\* C23: maxPower is at least the power of every new-peak notification of
\* its date, from the moment the notification is handed to
\* sendPushNotification and whether or not that failed, and no later
\* new-peak notification of the date carries a power that was notified
\* before: a failed notification is not attempted again.
C23_NoRollbackNoRetry ==
    \A k \in 1 .. Len(sent) :
        sent[k].type = "peak" =>
            /\ sent[k].pollDate = dailyPeak.date => dailyPeak.maxPower >= sent[k].power
            /\ \A n \in (k + 1) .. Len(sent) :
                  (sent[n].type = "peak" /\ sent[n].pollDate = sent[k].pollDate) =>
                      sent[n].power > sent[k].power

\* a peak notification failed, and a later poll of the same date saw the same
\* power and notified nothing
C23_Witness ==
    \E k \in 1 .. Len(sent) :
        /\ sent[k].type = "peak"
        /\ sent[k].failed
        /\ \E j \in 1 .. Len(polled) :
              /\ polled[j].poll > sent[k].poll
              /\ polled[j].date = sent[k].pollDate
              /\ polled[j].power = sent[k].power
              /\ polls[polled[j].poll].pc = "done"
              /\ \A n \in 1 .. Len(sent) : sent[n].poll # polled[j].poll

\* C29 for the in-memory version: an execution that awaits a delivery has
\* saved the notification and delivers to a subscriber the list held when
\* the execution read it, an execution that ended normally has saved, also
\* with an empty list, and one whose save failed has read no list.
C29_PersistThenDeliver ==
    \A c \in 1 .. Len(sends) :
        /\ sends[c].pc = "deliver" => (sends[c].persisted /\ sends[c].sub \in sends[c].seen)
        /\ sends[c].pc = "done" => sends[c].persisted
        /\ ~sends[c].persisted => (sends[c].seen = {} /\ sends[c].sub = 0)

\* the powers of the samples of the window
Powers == {data[i].power : i \in 1 .. Len(data)}

\* C27: the max_power_kw and min_power_kw of a 200 answer of /daily-bill are
\* the largest and the smallest power of the window's samples, whatever their
\* sign, and min_power_kw <= avg_power_kw <= max_power_kw.
C27_MaxMinOfWindow ==
    (resp.endpoint = "daily-bill" /\ resp.status = 200) =>
        /\ resp.max_power_kw = 100 * (CHOOSE p \in Powers : \A q \in Powers : q <= p)
        /\ resp.min_power_kw = 100 * (CHOOSE p \in Powers : \A q \in Powers : p <= q)
        /\ resp.min_power_kw <= resp.avg_power_kw
        /\ resp.avg_power_kw <= resp.max_power_kw

\* C28: the sample falls inside the window of exactly one date (once every
\* date has been queried by /daily-bill, exactly one query has selected it),
\* and for a date both have queried, /calendar and /daily-bill agree on
\* whether the sample is selected.
C28_WindowsTile ==
    /\ selected.billAsked = Dates => Cardinality(selected.bill) = 1
    /\ \A date \in selected.billAsked \cap selected.calendarAsked :
          date \in selected.bill <=> date \in selected.calendar

\* the hour boundaries strictly inside the interval from a to b
BoundariesInside(a, b) == {t \in (a + 1) .. (b - 1) : t % MinPerHour = 0}

\* the first hour boundary after t
BoundaryAfter(t) ==
    CHOOSE b \in (t + 1) .. (t + MinPerHour) : b % MinPerHour = 0

\* a turn of the loop moves the cursor forward, to the first hour boundary
\* after it or to the end, whichever comes first
CursorAdvances ==
    split'.start # split.start =>
        /\ split'.start > split.start
        /\ split'.start = IF BoundaryAfter(split.start) < split.end
                          THEN BoundaryAfter(split.start) ELSE split.end
        /\ split'.iterations = split.iterations + 1

\* what holds of a call that has returned, and of the buckets at any time
SplitCounts ==
    /\ split.written \subseteq 0 .. 23
    /\ split.pc = "done" =>
          /\ split.first < split.end =>
                split.iterations = Cardinality(BoundariesInside(split.first, split.end)) + 1
          /\ split.first >= split.end =>
                split.iterations = 0 /\ split.hourlyEnergy = ZeroHours
          /\ split.hourlyEnergy =
                SplitLoop(split.first, split.end, split.power2, ZeroHours)

\* C30: the hour-splitting loop returns for every pair of samples; each turn
\* moves the cursor forward to min(next hour boundary, end); a call with
\* prev.timestamp < curr.timestamp takes (hour boundaries strictly inside the
\* interval) + 1 turns, a call with curr.timestamp <= prev.timestamp takes
\* none and adds no energy; only the buckets 0..23 are written.
C30_SplitTerminates ==
    /\ [][CursorAdvances]_split
    /\ [](SplitCounts)
    /\ <>(split.pc = "done")

\* a call whose interval crosses midnight has returned after more than one
\* turn, with energy in the buckets 23 and 0
C30_Witness ==
    /\ split.pc = "done"
    /\ split.iterations >= 2
    /\ split.hourlyEnergy[23] > 0
    /\ split.hourlyEnergy[0] > 0

====
